---- MODULE Spec2Model ----
(***************************************************************************)
(* Vulkan footprint builder (gapis/api/vulkan/footprint_builder.go).       *)
(*                                                                         *)
(* The builder is fed one command at a time (BuildFootprint).  Every       *)
(* command handler is one action; the helpers it calls (read, write,       *)
(* modify, rollOutExecuted, ...) are operators over a record that packs    *)
(* the builder's fields, so that an action is the whole handler.           *)
(***************************************************************************)
EXTENDS Integers, Sequences, FiniteSets, TLC

VARIABLES
    nextId,            \* api.CmdID the collaborator hands to the next BuildFootprint
    crashed,           \* a Go run-time panic (nil dereference, index out of range) happened
    ft,                \* dependencygraph.Footprint: the behaviours, in AddBehavior order
    nextBh,            \* identity of the next *dependencygraph.Behavior allocated
    nextLabelVal,      \* package variable nextLabelVal
    defB,              \* DefUseVariable -> identity of its defining behaviour (field b)
    spans,             \* the *memorySpan objects recorded so far: memory, start, end
    records,           \* FootprintBuilder.deviceMemoryRecords.records
    DeviceMemories,    \* collaborator: GetState(s).DeviceMemories(), with coherency
    mappedCoherentMemories, \* FootprintBuilder.mappedCoherentMemories
    Semaphores,        \* collaborator: GetState(s).Semaphores()
    commandBuffers,    \* FootprintBuilder.commandBuffers
    commands,          \* FootprintBuilder.commands
    cbcs,              \* the *commandBufferCommand objects allocated so far
    semaphoreSignals,  \* FootprintBuilder.semaphoreSignals
    fences,            \* FootprintBuilder.fences
    events,            \* FootprintBuilder.events
    executionStates,   \* FootprintBuilder.executionStates
    submitInfos,       \* FootprintBuilder.submitInfos
    logs,              \* the log.E lines of rollOutExecuted, oldest first
    ran,               \* the submitted commands whose behave closure was invoked, oldest first
    trace,             \* the commands handed to BuildFootprint so far, oldest first
    emitted,           \* the last direct call of the emitter: operation, arguments, result
    images,            \* FootprintBuilder.images: layout label and opaque bindings
    buffers,           \* FootprintBuilder.buffers: the bindings of each buffer
    nextBinding,       \* identity of the next *resBinding allocated
    swapchainImageAcquired,  \* FootprintBuilder.swapchainImageAcquired
    swapchainImagePresented, \* FootprintBuilder.swapchainImagePresented
    LastDrawInfos,     \* collaborator: the images attached to the framebuffer of the
                       \* last draw of the last bound queue, when the last
                       \* submission is a submit
    nextAtt,           \* identity of the next object a render pass command allocates:
                       \* *subpassAttachmentInfo, *subpassIndex, *forwardPairedLabel
    descriptorSets,    \* FootprintBuilder.descriptorSets: handle -> index in dss
    dss,               \* the *descriptorSet objects allocated so far
    nextDescriptor,    \* identity of the next *descriptor or *boundDescriptorSet allocated
    other              \* a second *FootprintBuilder, as a record of its fields (<<>>: none)

vars == <<nextId, crashed, ft, nextBh, nextLabelVal, defB, spans, records,
          DeviceMemories, mappedCoherentMemories, Semaphores, commandBuffers,
          commands, cbcs, semaphoreSignals, fences, events, executionStates,
          submitInfos, logs, ran, trace, emitted, images, buffers, nextBinding,
          swapchainImageAcquired, swapchainImagePresented, LastDrawInfos,
          nextAtt, descriptorSets, dss, nextDescriptor, other>>

-----------------------------------------------------------------------------
(* Bounds of the model *)

\* Number of commands of a trace that records and submits command buffers.
MaxCmds == 6
\* Number of commands of a trace whose submits are rolled out.
MaxRollCmds == 5
\* Number of commands of a trace of synchronisation and queue commands.
MaxSyncCmds == 5
\* Number of direct calls of the emitter.
MaxEmits == 2
\* Number of commands of a trace of memory commands.
MaxMemCmds == 4
\* Number of executed subcommands the collaborator reports during one command.
MaxExec == 2
\* Memory offsets range over 0..MaxAddr.
MaxAddr == 3
\* Commands of a trace that creates, waits for and destroys objects.
MaxLifeCmds == 3
\* Commands of a trace that begins and resets command buffers.
MaxBeginCmds == 6
\* Commands of a trace that binds memory to resources.
MaxBindCmds == 4
\* Commands of a trace with unhandled commands and failed mutates.
MaxOtherCmds == 5
\* Commands of a trace with handles that have no shadow entry.
MaxUnknownCmds == 3
\* Commands of a trace that acquires and presents swapchain images.
MaxPresentCmds == 6
\* Commands of a trace that maps coherent memory and submits.
MaxCoherentCmds == 6
\* Commands of a trace whose submits draw into a framebuffer.
MaxPinCmds == 6
\* Commands of a trace that records a render pass and submits it.
MaxPassCmds == 6
\* Commands of a trace that records a copy or a clear and submits it.
MaxCopyCmds == 7
\* Commands of a descriptor set trace, and the largest array element a write
\* of such a trace starts at.
MaxDescCmds == 6
MaxElm == 2
\* Commands of a trace that uses a bound descriptor set, and the largest key
\* of a map whose keys a range statement visits in an order of its own.
MaxUseCmds == 14
MaxChainCmds == 11
MaxPairCmds == 3
MaxEmptyCmds == 5
\* Commands of a trace with an indexed draw, the size of its index buffer,
\* the largest offset of the bind and the largest number of indices.
MaxIndexCmds == 9
IndexBufferSize == 8
MaxIndexOffset == 4
MaxIndexCount == 2
\* Commands of a trace whose submits execute one command at a time.
MaxExecCmds == 18
\* Commands of a trace that touches a submitted command buffer.
MaxSnapCmds == 10
\* Commands of a trace that frees device memory.
MaxFreedCmds == 6
MaxKey == 1

-----------------------------------------------------------------------------
(* Small helpers *)

Min(S) == CHOOSE x \in S : \A y \in S : x <= y
Max(S) == CHOOSE x \in S : \A y \in S : x >= y
Range(f) == {f[i] : i \in DOMAIN f}
EmptyMap == [x \in {} |-> 0]
MapRemove(f, k) == [x \in (DOMAIN f) \ {k} |-> f[x]]
MapPut(f, k, v) == (k :> v) @@ f

-----------------------------------------------------------------------------
(* Abstract variables (dependencygraph.DefUseVariable)                     *)
(* k is the Go type, n the identity: the handle value, the label number,   *)
(* the index of the object among those of its type.                        *)

Var(k, n, a, b) == [k |-> k, n |-> n, a |-> a, b |-> b]

\* FootprintBuilder.toVkHandle: one vkHandle per handle value.
toVkHandle(handle) == Var("vkHandle", handle, 0, 0)
\* vkHandle.isNullHandle
isNullHandle(c) == c.n = 0
\* a *label; NilLabel is the nil pointer a map lookup miss gives.
Label(n) == Var("label", n, 0, 0)
NilLabel == Var("nil", 0, 0, 0)
\* FootprintBuilder.newMemorySpan: a span [start, end) of a memory, not yet recorded.
newMemorySpan(mem, offset, size) == Var("memorySpan", mem, offset, offset + size)
\* the i-th recorded *memorySpan object, whose span is spans[i].
RecordedSpan(i) == Var("recordedSpan", i, 0, 0)
\* the i-th *commandBufferCommand object.
CbcVar(i) == Var("commandBufferCommand", i, 0, 0)

\* nextLabelVal++ ; the new label is Label(s.nextLabelVal) of the state before.
newLabel(s) == [s EXCEPT !.nextLabelVal = @ + 1]

-----------------------------------------------------------------------------
(* Behaviours *)

\* dependencygraph.NewBehavior: the behaviour being stamped is s.cur.
\* role tells the place of the source that created it.
NewBehavior(s, idx, role) ==
    [s EXCEPT !.cur = [id |-> s.nextBh, idx |-> idx, reads |-> <<>>,
                       writes |-> <<>>, alive |-> FALSE, role |-> role],
              !.nextBh = @ + 1]

\* A run-time panic: the handler stops where it is, so every later step of
\* the handler leaves a crashed state as it is.
Panic(s) == [s EXCEPT !.crashed = TRUE]

\* Footprint.AddBehavior
AddBehavior(s) == IF s.crashed THEN s ELSE [s EXCEPT !.ft = Append(@, s.cur)]

\* Behavior.Read: the variable joins the read set.
BehaviorRead(s, c) == IF s.crashed THEN s ELSE [s EXCEPT !.cur.reads = Append(@, c)]

\* Behavior.Write: the variable joins the write set and the behaviour becomes
\* its defining behaviour (SetDefBehavior, which dereferences the variable).
BehaviorWrite(s, c) ==
    IF s.crashed THEN s
    ELSE IF c.k = "nil" THEN Panic(s)
    ELSE [s EXCEPT !.cur.writes = Append(@, c),
                   !.defB = MapPut(@, c, s.cur.id)]

\* bh.Alive = true
KeepAlive(s) == IF s.crashed THEN s ELSE [s EXCEPT !.cur.alive = TRUE]

-----------------------------------------------------------------------------
(* Interval lists of recorded memory spans *)

Overlaps(x, y, a, b) == x < b /\ a < y

\* interval.Intersect: index of the first span of the list that overlaps
\* [a, b) and the number of overlapping spans.
firstAndCount(hit) ==
    [first |-> IF hit = {} THEN 0 ELSE Min(hit), count |-> Cardinality(hit)]

Intersect(s, list, a, b) ==
    firstAndCount({i \in 1..Len(list) :
                      Overlaps(s.spans[list[i]].start, s.spans[list[i]].end, a, b)})

\* addBinding on the recorded spans of one memory: the new span id is put in
\* order; the spans it overlaps give way over the overlap (shrunk in place,
\* split in two when the new span falls inside one, dropped when covered).
\* The spans with those of the list shrunk that overlap [a, b).
shrunkBy(s, list, a, b) ==
    [j \in DOMAIN s.spans |->
        IF j \in list /\ s.spans[j].start < a
        THEN [s.spans[j] EXCEPT !.end = Min({@, a})]
        ELSE IF j \in list /\ s.spans[j].end > b
        THEN [s.spans[j] EXCEPT !.start = Max({@, b})]
        ELSE s.spans[j]]

\* The span id among the spans left and right of it; split is the span it
\* falls inside, whose part from b on becomes a new span.
mergeSpan(s, mem, id, b, left, right, split, shrunk) ==
    IF split = <<>>
    THEN [s EXCEPT !.spans = shrunk,
                   !.records[mem] = left \o <<id>> \o right]
    ELSE [s EXCEPT !.spans = Append(shrunk, [s.spans[split[1]] EXCEPT !.start = b]),
                   !.records[mem] = left \o <<id, Len(s.spans) + 1>> \o right,
                   !.defB = IF RecordedSpan(split[1]) \in DOMAIN s.defB
                            THEN MapPut(@, RecordedSpan(Len(s.spans) + 1),
                                        s.defB[RecordedSpan(split[1])])
                            ELSE @]

\* The span id against the list of its memory, [a, b) being its span.
addSpan(s, mem, id, list, a, b) ==
    mergeSpan(s, mem, id, b,
              SelectSeq(list, LAMBDA j : s.spans[j].start < a),
              SelectSeq(list, LAMBDA j : s.spans[j].end > b /\ s.spans[j].start >= a),
              SelectSeq(list, LAMBDA j : s.spans[j].start < a /\ s.spans[j].end > b),
              shrunkBy(s, Range(list), a, b))

addBinding(s, mem, id) ==
    addSpan(s, mem, id, s.records[mem], s.spans[id].start, s.spans[id].end)

-----------------------------------------------------------------------------
(* The emitter: read, write, modify *)

\* The recorded spans of a memory, none when the map has no entry.
recordsOf(s, mem) == IF mem \in DOMAIN s.records THEN s.records[mem] ELSE <<>>

RECURSIVE readSpans(_, _, _, _)
readSpans(s, list, i, last) ==
    IF i > last THEN s
    ELSE readSpans(BehaviorRead(s, RecordedSpan(list[i])), list, i + 1, last)

\* A read that stamps the first overlapping span only.
readFirstSpan(s, c) ==
    IF c.n = 0 \/ Intersect(s, recordsOf(s, c.n), c.a, c.b).count = 0 THEN s
    ELSE BehaviorRead(s, RecordedSpan(
             recordsOf(s, c.n)[Intersect(s, recordsOf(s, c.n), c.a, c.b).first]))

\* read, *memorySpan case: a null memory is skipped; otherwise the behaviour
\* reads every recorded span of the memory that intersects the span.
readOverlap(s, list, r) ==
    IF r.count > 0 THEN readSpans(s, list, r.first, r.first + r.count - 1) ELSE s

readIntersect(s, list, a, b) == readOverlap(s, list, Intersect(s, list, a, b))

readMemorySpan(s, c) ==
    IF c.n = 0 THEN s ELSE readIntersect(s, recordsOf(s, c.n), c.a, c.b)

\* A read without the test for the null handle.
readOneUnchecked(s, c) ==
    IF c.k = "memorySpan" THEN readMemorySpan(s, c) ELSE BehaviorRead(s, c)

\* read, one variable of the list.
readOne(s, c) ==
    IF c.k = "vkHandle" /\ isNullHandle(c) THEN [s EXCEPT !.ret = FALSE]
    ELSE IF c.k = "memorySpan" THEN readMemorySpan(s, c)
    ELSE BehaviorRead(s, c)

RECURSIVE readFrom(_, _, _)
readFrom(s, cs, i) ==
    IF i > Len(cs) \/ s.crashed THEN s ELSE readFrom(readOne(s, cs[i]), cs, i + 1)

\* read(ctx, bh, cs...): s.ret is the result.
read(s, cs) == readFrom([s EXCEPT !.ret = TRUE], cs, 1)

\* The span as a new recorded object of its memory.
newRecordedSpan(s, c) ==
    [s EXCEPT !.spans = Append(@, [memory |-> c.n, start |-> c.a, end |-> c.b]),
              !.records = IF c.n \in DOMAIN @ THEN @ ELSE MapPut(@, c.n, <<>>)]

\* A write whose duplicate is never merged into the recorded spans.
writeSpanUnrecorded(s, c) ==
    IF c.n = 0 THEN s
    ELSE BehaviorWrite(newRecordedSpan(s, c), RecordedSpan(Len(s.spans) + 1))

\* write, *memorySpan case: a null memory is skipped; otherwise the span is
\* duplicated, the duplicate is merged into the recorded spans of the memory
\* and the behaviour writes the duplicate.
writeMemorySpan(s, c) ==
    IF c.n = 0 THEN s
    ELSE BehaviorWrite(addBinding(newRecordedSpan(s, c), c.n, Len(s.spans) + 1),
                       RecordedSpan(Len(s.spans) + 1))

\* write, one variable of the list.
writeOne(s, c) ==
    IF c.k = "vkHandle" /\ isNullHandle(c) THEN [s EXCEPT !.ret = FALSE]
    ELSE IF c.k = "memorySpan" THEN writeMemorySpan(s, c)
    ELSE BehaviorWrite(s, c)

RECURSIVE writeFrom(_, _, _)
writeFrom(s, cs, i) ==
    IF i > Len(cs) \/ s.crashed THEN s ELSE writeFrom(writeOne(s, cs[i]), cs, i + 1)

\* write(ctx, bh, cs...): s.ret is the result.
write(s, cs) == writeFrom([s EXCEPT !.ret = TRUE], cs, 1)

\* A modify that writes whatever the read returned.
writeAlways(r, cs) == write(r, cs)

\* modify, line 3035: allSucceeded && write(ctx, bh, cs...), r being the
\* state after the read.
writeAfterRead(r, cs) == IF r.ret /\ ~r.crashed THEN write(r, cs) ELSE r

\* modify(ctx, bh, cs...): read, and write only if the read succeeded.
modify(s, cs) == writeAfterRead(read(s, cs), cs)

\* A call of read, of write or of modify, as how tells: the places of the
\* source that choose among the three for the same variables.
writeAs(r, cs, how) == IF how = "read" THEN r ELSE writeAfterRead(r, cs)
emitAs(s, cs, how) ==
    writeAs(IF how = "write" THEN [s EXCEPT !.ret = TRUE] ELSE read(s, cs), cs, how)

-----------------------------------------------------------------------------
(* The builder as one record, and back *)

State ==
    [nextId |-> nextId, crashed |-> crashed, ft |-> ft, nextBh |-> nextBh,
     nextLabelVal |-> nextLabelVal, defB |-> defB, spans |-> spans,
     records |-> records, DeviceMemories |-> DeviceMemories,
     mappedCoherentMemories |-> mappedCoherentMemories,
     Semaphores |-> Semaphores, commandBuffers |-> commandBuffers,
     commands |-> commands, cbcs |-> cbcs, semaphoreSignals |-> semaphoreSignals,
     fences |-> fences, events |-> events, executionStates |-> executionStates,
     submitInfos |-> submitInfos, logs |-> logs, ran |-> ran, trace |-> trace,
     emitted |-> emitted, images |-> images, buffers |-> buffers,
     nextBinding |-> nextBinding,
     swapchainImageAcquired |-> swapchainImageAcquired,
     swapchainImagePresented |-> swapchainImagePresented,
     LastDrawInfos |-> LastDrawInfos, nextAtt |-> nextAtt,
     descriptorSets |-> descriptorSets, dss |-> dss,
     nextDescriptor |-> nextDescriptor,
     other |-> other,
     \* locals of the running handler: the behaviour being stamped, the last
     \* result of read/write/modify, the command newCommand returned (0 is
     \* nil), whether rollOutExecuted has returned, the bindings and the data
     \* the last getSubBindingList / getBoundData / getImageData
     \* returned, whether the behaviour handed to getImageData is nil, the data
     \* of the framebuffer of the last draw, the three maps of beginRenderPass,
     \* the data useDescriptors has modified so far, the order in which the
     \* range statements of this call visit the keys of a map, the index of
     \* the next dynamic offset, the last bound descriptor set made
     cur |-> <<>>, ret |-> TRUE, cbc |-> 0, stop |-> FALSE, sub |-> <<>>,
     data |-> <<>>, nobh |-> FALSE, fbData |-> <<>>,
     attLoadSubpass |-> <<>>, attStoreSubpass |-> <<>>, attStoreAttInfo |-> <<>>,
     modified |-> <<>>, order |-> [i \in 1..MaxKey + 1 |-> i - 1], doi |-> 0, bds |-> <<>>]

Commit(s) ==
    /\ nextId' = s.nextId
    /\ crashed' = s.crashed
    /\ ft' = s.ft
    /\ nextBh' = s.nextBh
    /\ nextLabelVal' = s.nextLabelVal
    /\ defB' = s.defB
    /\ spans' = s.spans
    /\ records' = s.records
    /\ DeviceMemories' = s.DeviceMemories
    /\ mappedCoherentMemories' = s.mappedCoherentMemories
    /\ Semaphores' = s.Semaphores
    /\ commandBuffers' = s.commandBuffers
    /\ commands' = s.commands
    /\ cbcs' = s.cbcs
    /\ semaphoreSignals' = s.semaphoreSignals
    /\ fences' = s.fences
    /\ events' = s.events
    /\ executionStates' = s.executionStates
    /\ submitInfos' = s.submitInfos
    /\ logs' = s.logs
    /\ ran' = s.ran
    /\ trace' = s.trace
    /\ emitted' = s.emitted
    /\ images' = s.images
    /\ buffers' = s.buffers
    /\ nextBinding' = s.nextBinding
    /\ swapchainImageAcquired' = s.swapchainImageAcquired
    /\ swapchainImagePresented' = s.swapchainImagePresented
    /\ LastDrawInfos' = s.LastDrawInfos
    /\ nextAtt' = s.nextAtt
    /\ descriptorSets' = s.descriptorSets
    /\ dss' = s.dss
    /\ nextDescriptor' = s.nextDescriptor
    /\ other' = s.other

\* newFootprintBuilder, the package variable nextLabelVal, and a collaborator
\* state in which nothing has been created yet.
Init ==
    /\ nextId = 1
    /\ crashed = FALSE
    /\ ft = <<>>
    /\ nextBh = 1
    /\ nextLabelVal = 1
    /\ defB = EmptyMap
    /\ spans = <<>>
    /\ records = EmptyMap
    /\ DeviceMemories = EmptyMap
    /\ mappedCoherentMemories = EmptyMap
    /\ Semaphores = {}
    /\ commandBuffers = EmptyMap
    /\ commands = EmptyMap
    /\ cbcs = <<>>
    /\ semaphoreSignals = EmptyMap
    /\ fences = EmptyMap
    /\ events = EmptyMap
    /\ executionStates = EmptyMap
    /\ submitInfos = EmptyMap
    /\ logs = <<>>
    /\ ran = <<>>
    /\ trace = <<>>
    /\ emitted = <<>>
    /\ images = EmptyMap
    /\ buffers = EmptyMap
    /\ nextBinding = 1
    /\ swapchainImageAcquired = EmptyMap
    /\ swapchainImagePresented = EmptyMap
    /\ LastDrawInfos = <<>>
    /\ nextAtt = 1
    /\ descriptorSets = EmptyMap
    /\ dss = <<>>
    /\ nextDescriptor = 1
    /\ other = <<>>

\* newFootprintBuilder, lines 1322-1342: the fields of a new builder, as a
\* record; nextLabelVal is there for the value the package variable has
\* during a call.
newFootprintBuilder ==
    [nextId |-> 1, crashed |-> FALSE, ft |-> <<>>, nextBh |-> 1,
     defB |-> EmptyMap, spans |-> <<>>, records |-> EmptyMap,
     DeviceMemories |-> EmptyMap, mappedCoherentMemories |-> EmptyMap,
     Semaphores |-> {}, commandBuffers |-> EmptyMap, commands |-> EmptyMap,
     cbcs |-> <<>>, semaphoreSignals |-> EmptyMap, fences |-> EmptyMap,
     events |-> EmptyMap, executionStates |-> EmptyMap,
     submitInfos |-> EmptyMap, logs |-> <<>>, ran |-> <<>>, trace |-> <<>>,
     emitted |-> <<>>, images |-> EmptyMap, buffers |-> EmptyMap,
     nextBinding |-> 1, swapchainImageAcquired |-> EmptyMap,
     swapchainImagePresented |-> EmptyMap, LastDrawInfos |-> <<>>,
     nextAtt |-> 1, descriptorSets |-> EmptyMap, dss |-> <<>>,
     nextDescriptor |-> 1, nextLabelVal |-> 0, other |-> <<>>,
     cur |-> <<>>, ret |-> TRUE, cbc |-> 0, stop |-> FALSE, sub |-> <<>>,
     data |-> <<>>, nobh |-> FALSE, fbData |-> <<>>,
     attLoadSubpass |-> <<>>, attStoreSubpass |-> <<>>, attStoreAttInfo |-> <<>>,
     modified |-> <<>>, order |-> [i \in 1..MaxKey + 1 |-> i - 1], doi |-> 0, bds |-> <<>>]

-----------------------------------------------------------------------------
(* Device memory commands *)

\* Handle values of the traces (a handle value is unique over all types).
MemoryHandles == {3}
\* A memory range of a command: memory, offset, size, inside 0..MaxAddr.
MemoryRanges ==
    {[memory |-> m, offset |-> o, size |-> z] :
        m \in MemoryHandles \cup {0}, o \in 0..MaxAddr, z \in 1..MaxAddr}
InRange(r) == r.offset + r.size <= MaxAddr /\ (r.memory = 0 => r.offset = 0 /\ r.size = 1)

\* writeCoherentMemoryData, lines 2933-2950: one observation against one
\* mapped coherent memory.
writeObserved(t, ro, vkDm) ==
    LET mm == t.mappedCoherentMemories[vkDm]
        lo == Max({ro.base, mm.MappedLocation})
        hi == Min({ro.base + ro.size, mm.MappedLocation + mm.MappedSize})
    IN IF Overlaps(ro.base, ro.base + ro.size,
                   mm.MappedLocation, mm.MappedLocation + mm.MappedSize)
       THEN write(KeepAlive(t),
                  <<newMemorySpan(vkDm, mm.MappedOffset + lo - mm.MappedLocation, hi - lo)>>)
       ELSE t

RECURSIVE writeObservedAll(_, _, _)
writeObservedAll(t, ro, todo) ==
    IF todo = {} \/ t.crashed THEN t
    ELSE writeObservedAll(writeObserved(t, ro, Min(todo)), ro, todo \ {Min(todo)})

RECURSIVE writeObservations(_, _, _)
writeObservations(t, obs, i) ==
    IF i > Len(obs) \/ t.crashed THEN t
    ELSE writeObservations(writeObservedAll(t, obs[i], DOMAIN t.mappedCoherentMemories),
                           obs, i + 1)

\* writeCoherentMemoryData: every observation that overlaps the mapped range
\* of a mapped coherent memory keeps the behaviour alive and is written as a
\* span of that memory.
writeCoherentMemoryData(s, obs) == writeObservations(s, obs, 1)

\* case *VkAllocateMemory (the collaborator's mutate adds the memory object).
DoAllocateMemory(s, cmd) ==
    write([s EXCEPT !.DeviceMemories = MapPut(@, cmd.memory, [coherent |-> cmd.coherent])],
          <<toVkHandle(cmd.memory)>>)

\* case *VkFlushMappedMemoryRanges, lines 1624-1639: one range, t being the
\* state after the read of the memory handle.
flushRange(t, cmd, rng, coherentMemDone) ==
    IF rng.memory \notin DOMAIN t.DeviceMemories THEN t
    ELSE IF t.DeviceMemories[rng.memory].coherent
    THEN (IF coherentMemDone THEN t ELSE writeCoherentMemoryData(t, cmd.observations))
    ELSE write(t, <<newMemorySpan(rng.memory, rng.offset, rng.size)>>)

RECURSIVE flushRanges(_, _, _, _)
flushRanges(t, cmd, i, coherentMemDone) ==
    IF i > Len(cmd.ranges) \/ t.crashed THEN t
    ELSE flushRanges(flushRange(read(t, <<toVkHandle(cmd.ranges[i].memory)>>),
                                cmd, cmd.ranges[i], coherentMemDone),
                     cmd, i + 1,
                     coherentMemDone
                       \/ (/\ cmd.ranges[i].memory \in DOMAIN t.DeviceMemories
                           /\ t.DeviceMemories[cmd.ranges[i].memory].coherent))

\* case *VkFlushMappedMemoryRanges
DoFlushMappedMemoryRanges(s, cmd) == flushRanges(s, cmd, 1, FALSE)

RECURSIVE invalidateRanges(_, _, _)
invalidateRanges(t, cmd, i) ==
    IF i > Len(cmd.ranges) \/ t.crashed THEN t
    ELSE invalidateRanges(
             read(read(t, <<toVkHandle(cmd.ranges[i].memory)>>),
                  <<newMemorySpan(cmd.ranges[i].memory, cmd.ranges[i].offset,
                                  cmd.ranges[i].size)>>),
             cmd, i + 1)

\* case *VkInvalidateMappedMemoryRanges
DoInvalidateMappedMemoryRanges(s, cmd) == invalidateRanges(s, cmd, 1)

\* One call of the emitter on a list of variables; the call and its result
\* are kept in emitted.
emittedBy(s, r, cmd) ==
    [r EXCEPT !.emitted = [op |-> cmd.op, cs |-> cmd.cs, ret |-> r.ret,
                           reads |-> r.cur.reads, writes |-> r.cur.writes]]

DoEmit(s, cmd) ==
    CASE cmd.op = "read" -> emittedBy(s, read(s, cmd.cs), cmd)
      [] cmd.op = "write" -> emittedBy(s, write(s, cmd.cs), cmd)
      [] cmd.op = "modify" -> emittedBy(s, modify(s, cmd.cs), cmd)

-----------------------------------------------------------------------------
(* Subcommand indices (api.SubCmdIdx) *)

\* SubCmdIdx.Equals
Equals(x, y) == Len(x) = Len(y) /\ \A i \in 1..Len(x) : x[i] = y[i]

\* SubCmdIdx.LessThan: lexicographic, a proper prefix being smaller.
LessThan(x, y) ==
    \/ \E i \in 1..Len(x) : /\ i <= Len(y)
                            /\ x[i] < y[i]
                            /\ \A j \in 1..(i - 1) : x[j] = y[j]
    \/ /\ Len(x) < Len(y)
       /\ \A j \in 1..Len(x) : x[j] = y[j]

-----------------------------------------------------------------------------
(* Command buffers and their recorded commands *)

\* vb.commands[vkCb], the empty list when the map has no entry.
commandsOf(s, vkCb) == IF vkCb \in DOMAIN s.commands THEN s.commands[vkCb] ELSE <<>>

\* newCommand, lines 1315-1318: the new command, r being the state after the
\* read of the begin label.
appendCommand(r, vkCb) ==
    [write([r EXCEPT !.cbcs = Append(@, [isCmdExecuteCommands |-> FALSE,
                                         secondaryCommandBuffers |-> <<>>,
                                         behave |-> "unset",
                                         captured |-> <<>>])],
           <<CbcVar(Len(r.cbcs) + 1)>>)
       EXCEPT !.commands = MapPut(@, vkCb, Append(commandsOf(r, vkCb), Len(r.cbcs) + 1)),
              !.cbc = Len(r.cbcs) + 1]

\* newCommand, lines 1311-1319, r being the state after the read of the
\* command buffer handle.
newCommandIn(r, vkCb) ==
    IF vkCb \in DOMAIN r.commandBuffers
    THEN appendCommand(read(r, <<Label(r.commandBuffers[vkCb].begin)>>), vkCb)
    ELSE [r EXCEPT !.cbc = 0]

\* FootprintBuilder.newCommand: s.cbc is the new command, 0 (nil) when the
\* command buffer has no shadow entry.
newCommand(s, vkCb) == newCommandIn(read(s, <<toVkHandle(vkCb)>>), vkCb)

\* cbc.behave = ... : the assignment to a nil command panics.
setBehave(s, behave) ==
    IF s.crashed THEN s
    ELSE IF s.cbc = 0 THEN Panic(s)
    ELSE [s EXCEPT !.cbcs[s.cbc].behave = behave]

\* FootprintBuilder.recordModifingDynamicStates
recordModifingDynamicStates(s, vkCb) == setBehave(newCommand(s, vkCb), "modifyDynamicState")

\* The three labels of a command buffer.
newCommandBuffer(t, vkCb) ==
    [t EXCEPT !.commandBuffers = MapPut(@, vkCb,
                  [begin |-> t.nextLabelVal, end |-> t.nextLabelVal + 1,
                   renderPassBegin |-> t.nextLabelVal + 2]),
              !.nextLabelVal = @ + 3]

RECURSIVE allocateFrom(_, _, _)
allocateFrom(t, cbs, i) ==
    IF i > Len(cbs) \/ t.crashed THEN t
    ELSE allocateFrom(newCommandBuffer(write(t, <<toVkHandle(cbs[i])>>), cbs[i]), cbs, i + 1)

\* case *VkAllocateCommandBuffers
DoAllocateCommandBuffers(s, cmd) == allocateFrom(s, cmd.commandBuffers, 1)

\* case *VkCmdSetLineWidth
DoCmdSetLineWidth(s, cmd) == recordModifingDynamicStates(s, cmd.commandBuffer)

\* cbc.isCmdExecuteCommands = true, on the command newCommand returned.
markExecuteCommands(s) ==
    IF s.crashed THEN s
    ELSE IF s.cbc = 0 THEN Panic(s)
    ELSE [s EXCEPT !.cbcs[s.cbc].isCmdExecuteCommands = TRUE]

\* lines 2549-2552: recordSecondaryCommandBuffer and the read of the handle.
RECURSIVE recordSecondaries(_, _, _)
recordSecondaries(t, scbs, i) ==
    IF i > Len(scbs) \/ t.crashed THEN t
    ELSE recordSecondaries(
             read([t EXCEPT !.cbcs[t.cbc].secondaryCommandBuffers = Append(@, scbs[i])],
                  <<toVkHandle(scbs[i])>>),
             scbs, i + 1)

\* case *VkCmdExecuteCommands
DoCmdExecuteCommands(s, cmd) ==
    setBehave(recordSecondaries(markExecuteCommands(newCommand(s, cmd.commandBuffer)),
                                cmd.secondaries, 1),
              "nothing")

-----------------------------------------------------------------------------
(* Queue execution *)

\* newCommandBufferExecutionState: a new pipeline and a new dynamic-state
\* label; indexBufferResBindings is nil (indexBufferIsNil) and indexType the
\* zero value.
newCommandBufferExecutionState(s) ==
    [pipeline |-> s.nextLabelVal, dynamicState |-> s.nextLabelVal + 1,
     descriptorSets |-> EmptyMap, indexBufferResBindings |-> <<>>,
     indexBufferIsNil |-> TRUE, indexType |-> "UINT16"]

\* The nil *commandBufferExecutionState.
NilCmdBufState ==
    [pipeline |-> 0, dynamicState |-> 0, descriptorSets |-> EmptyMap,
     indexBufferResBindings |-> <<>>, indexBufferIsNil |-> TRUE, indexType |-> "UINT16"]

\* a *subpassIndex: its identity and its val; NilSubpass is the nil pointer.
NilSubpass == [id |-> 0, val |-> 0]

\* newQueueExecutionState
newQueueExecutionState(id) ==
    [lastSubmitID |-> id, currentCommand |-> <<0, 0, 0, 0>>,
     currentCmdBufState |-> "nil", primaryCmdBufState |-> NilCmdBufState,
     secondaryCmdBufState |-> NilCmdBufState, currentSubmitInfo |-> 0,
     subpasses |-> <<>>, subpass |-> NilSubpass, renderPassBegin |-> NilLabel]

\* An update that makes a new primary state only when the submit changes.
updatePerSubmit(s, queue, fci) ==
    IF s.crashed THEN s
    ELSE IF Len(fci) = 4 /\ s.executionStates[queue].currentCommand[1] < fci[1]
    THEN [s EXCEPT !.executionStates[queue].primaryCmdBufState =
                       newCommandBufferExecutionState(s),
                   !.executionStates[queue].currentCmdBufState = "primary",
                   !.executionStates[queue].currentCommand = fci,
                   !.nextLabelVal = @ + 2]
    ELSE IF Len(fci) = 6 /\ Len(s.executionStates[queue].currentCommand) # 6
    THEN [s EXCEPT !.executionStates[queue].secondaryCmdBufState =
                       newCommandBufferExecutionState(s),
                   !.executionStates[queue].currentCmdBufState = "secondary",
                   !.executionStates[queue].currentCommand = fci,
                   !.nextLabelVal = @ + 2]
    ELSE [s EXCEPT !.executionStates[queue].currentCmdBufState =
                       IF Len(fci) = 4 THEN "primary" ELSE "secondary",
                   !.executionStates[queue].currentCommand = fci]

\* queueExecutionState.updateCurrentCommand on the execution state of a queue.
updateCurrentCommand(s, queue, fci) ==
    IF s.crashed THEN s
    ELSE CASE Len(fci) = 4 ->
              IF LessThan(SubSeq(s.executionStates[queue].currentCommand, 1, 3),
                          SubSeq(fci, 1, 3))
              THEN [s EXCEPT !.executionStates[queue].primaryCmdBufState =
                                 newCommandBufferExecutionState(s),
                             !.executionStates[queue].currentCmdBufState = "primary",
                             !.executionStates[queue].currentCommand = fci,
                             !.nextLabelVal = @ + 2]
              ELSE [s EXCEPT !.executionStates[queue].currentCmdBufState = "primary",
                             !.executionStates[queue].currentCommand = fci]
         [] Len(fci) = 6 ->
              IF \/ Len(s.executionStates[queue].currentCommand) # 6
                 \/ LessThan(SubSeq(s.executionStates[queue].currentCommand, 1, 5),
                             SubSeq(fci, 1, 5))
              THEN [s EXCEPT !.executionStates[queue].secondaryCmdBufState =
                                 newCommandBufferExecutionState(s),
                             !.executionStates[queue].currentCmdBufState = "secondary",
                             !.executionStates[queue].currentCommand = fci,
                             !.nextLabelVal = @ + 2]
              ELSE [s EXCEPT !.executionStates[queue].currentCmdBufState = "secondary",
                             !.executionStates[queue].currentCommand = fci]
         [] OTHER -> [s EXCEPT !.executionStates[queue].currentCommand = fci]

\* queueExecutionState.currentCmdBufState: the state it points to.
currentCmdBufState(s, queue) ==
    CASE s.executionStates[queue].currentCmdBufState = "primary" ->
             s.executionStates[queue].primaryCmdBufState
      [] s.executionStates[queue].currentCmdBufState = "secondary" ->
             s.executionStates[queue].secondaryCmdBufState
      [] OTHER -> NilCmdBufState

\* commandBufferCommand.newBehavior, lines 148-151: the read of the parent
\* command of a secondary command.
readParent(s, sc) == IF sc.parentCmd # 0 THEN read(s, <<CbcVar(sc.parentCmd)>>) ELSE s

\* commandBufferCommand.newBehavior: the behaviour of a submitted command.
newBehavior(s, sc, queue) ==
    readParent(
        read(read(NewBehavior(s, sc.id, "subcommand"), <<CbcVar(sc.cmd)>>),
             <<Label(s.submitInfos[s.executionStates[queue].currentSubmitInfo].queued)>>),
        sc)

\* The behave closure recordModifingDynamicStates installs (lines 1414-1418).
modifyDynamicState(s, sc, queue) ==
    IF currentCmdBufState(s, queue) = NilCmdBufState THEN Panic(s)
    ELSE AddBehavior(modify(newBehavior(s, sc, queue),
                            <<Label(currentCmdBufState(s, queue).dynamicState)>>))

\* The label of a semaphore, the nil pointer when the map has no entry.
semaphoreSignal(s, sp) ==
    IF sp \in DOMAIN s.semaphoreSignals THEN Label(s.semaphoreSignals[sp]) ELSE NilLabel

-----------------------------------------------------------------------------
(* VkQueueSubmit: the pending list *)

RECURSIVE Flatten(_)
Flatten(ss) == IF Len(ss) = 0 THEN <<>> ELSE Head(ss) \o Flatten(Tail(ss))

\* The longest prefix of a list whose elements are all in a set: the loops
\* over command buffers and semaphores break at the first invalid one.
ValidPrefix(list, valid) ==
    IF \A n \in 1..Len(list) : list[n] \in valid THEN list
    ELSE SubSeq(list, 1, Min({n \in 1..Len(list) : list[n] \notin valid}) - 1)

\* A CmdExecuteCommands whose secondary command buffers are left out.
noSecondaryPending(s, fci, cbc) == <<>>

\* lines 2589-2601: the commands of the secondary command buffers of one
\* CmdExecuteCommands, with the six-element index and the parent command.
secondaryPending(s, fci, cbc) ==
    LET scbs == ValidPrefix(s.cbcs[cbc].secondaryCommandBuffers, DOMAIN s.commandBuffers)
    IN Flatten([scbi \in 1..Len(scbs) |->
                  [sci \in 1..Len(commandsOf(s, scbs[scbi])) |->
                      [id |-> fci \o <<scbi - 1, sci - 1>>,
                       cmd |-> commandsOf(s, scbs[scbi])[sci],
                       parentCmd |-> cbc]]])

\* lines 2581-2603: the commands of one submitted command buffer.
commandBufferPending(s, id, i, j, vkCb) ==
    LET cmds == commandsOf(s, vkCb)
    IN Flatten([k \in 1..Len(cmds) |->
                  <<[id |-> <<id, i, j, k - 1>>, cmd |-> cmds[k], parentCmd |-> 0]>>
                  \o (IF s.cbcs[cmds[k]].isCmdExecuteCommands
                      THEN secondaryPending(s, <<id, i, j, k - 1>>, cmds[k])
                      ELSE <<>>)])

\* lines 2571-2604: the pending commands of the whole VkQueueSubmit.
pendingCommandsOf(s, id, submits) ==
    Flatten([i \in 1..Len(submits) |->
               LET cbs == ValidPrefix(submits[i].commandBuffers, DOMAIN s.commandBuffers)
               IN Flatten([j \in 1..Len(cbs) |->
                             commandBufferPending(s, id, i - 1, j - 1, cbs[j])])])

\* The end labels the submit's behaviour reads while the list is built
\* (lines 2580 and 2595), in the order of the reads.
endLabelsOf(s, submits) ==
    Flatten([i \in 1..Len(submits) |->
       LET cbs == ValidPrefix(submits[i].commandBuffers, DOMAIN s.commandBuffers)
       IN Flatten([j \in 1..Len(cbs) |->
            <<Label(s.commandBuffers[cbs[j]].end)>>
            \o Flatten([k \in 1..Len(commandsOf(s, cbs[j])) |->
                 LET cbc == s.cbcs[commandsOf(s, cbs[j])[k]]
                     scbs == ValidPrefix(cbc.secondaryCommandBuffers, DOMAIN s.commandBuffers)
                 IN IF cbc.isCmdExecuteCommands
                    THEN [n \in 1..Len(scbs) |-> Label(s.commandBuffers[scbs[n]].end)]
                    ELSE <<>>])])])

\* lines 2605-2622: the semaphores kept, per submit up to the first one the
\* collaborator's state does not contain.
waitSemaphoresOf(s, submits) ==
    Flatten([i \in 1..Len(submits) |-> ValidPrefix(submits[i].waitSemaphores, s.Semaphores)])
signalSemaphoresOf(s, submits) ==
    Flatten([i \in 1..Len(submits) |-> ValidPrefix(submits[i].signalSemaphores, s.Semaphores)])

\* lines 2557-2568, r being the state after the read of the queue handle.
submitBegin(r, cmd) ==
    [r EXCEPT !.executionStates =
                  IF cmd.queue \in DOMAIN @
                  THEN [@ EXCEPT ![cmd.queue].lastSubmitID = r.nextId]
                  ELSE MapPut(@, cmd.queue, newQueueExecutionState(r.nextId)),
              !.nextLabelVal = @ + 2]

\* lines 2563-2624: the submit info, with the pending list as it is after
\* the loops; submitted is not a field of the source, it keeps the list as
\* it was submitted.
submitInfoOf(s, cmd) ==
    [queue |-> cmd.queue, began |-> FALSE,
     queued |-> s.nextLabelVal - 2, done |-> s.nextLabelVal - 1,
     waitSemaphores |-> waitSemaphoresOf(s, cmd.submits),
     signalSemaphores |-> signalSemaphoresOf(s, cmd.submits),
     signalFence |-> cmd.fence,
     pendingCommands |-> pendingCommandsOf(s, s.nextId, cmd.submits),
     submitted |-> pendingCommandsOf(s, s.nextId, cmd.submits)]

\* lines 2569-2624, with the reads of the end labels.
submitCollect(s, cmd) ==
    read([s EXCEPT !.submitInfos = MapPut(@, s.nextId, submitInfoOf(s, cmd))],
         endLabelsOf(s, cmd.submits))

\* hasCmd of the VkQueueSubmit being built.
hasCmd(s) == Len(s.submitInfos[s.nextId].submitted) > 0

\* lines 2628-2631, r being the state after the read of the fence handle.
unsignalFence(r, f) ==
    IF r.crashed \/ ~r.ret THEN r
    ELSE IF f \notin DOMAIN r.fences THEN Panic(r)
    ELSE write(read(r, <<Label(r.fences[f].unsignal)>>), <<Label(r.fences[f].signal)>>)

\* lines 2643-2647, r being the state after the read of the semaphore handle.
modifyWaitIfNoCmd(r, sp) ==
    IF r.crashed \/ ~r.ret \/ hasCmd(r) THEN r ELSE modify(r, <<semaphoreSignal(r, sp)>>)

RECURSIVE submitWaits(_, _, _)
submitWaits(t, sps, i) ==
    IF i > Len(sps) \/ t.crashed THEN t
    ELSE submitWaits(modifyWaitIfNoCmd(read(t, <<toVkHandle(sps[i])>>), sps[i]), sps, i + 1)

\* lines 2650-2654: the write is on the handle of the semaphore.
writeSignalIfNoCmd(r, sp) ==
    IF r.crashed \/ ~r.ret \/ hasCmd(r) THEN r ELSE write(r, <<toVkHandle(sp)>>)

RECURSIVE submitSignals(_, _, _)
submitSignals(t, sps, i) ==
    IF i > Len(sps) \/ t.crashed THEN t
    ELSE submitSignals(writeSignalIfNoCmd(read(t, <<toVkHandle(sps[i])>>), sps[i]), sps, i + 1)

\* lines 2656-2660, r being the state after the read of the fence handle.
signalFenceIfNoCmd(r, f) ==
    IF r.crashed \/ ~r.ret \/ hasCmd(r) THEN r
    ELSE IF f \notin DOMAIN r.fences THEN Panic(r)
    ELSE write(r, <<Label(r.fences[f].signal)>>)

\* lines 2626-2660: queue execution begin.
submitExecutionBegin(s, cmd) ==
    signalFenceIfNoCmd(
        read(submitSignals(
                 submitWaits(
                     write(unsignalFence(
                               read(writeCoherentMemoryData(s, cmd.observations),
                                    <<toVkHandle(cmd.fence)>>),
                               cmd.fence),
                           <<Label(s.submitInfos[s.nextId].queued)>>),
                     s.submitInfos[s.nextId].waitSemaphores, 1),
                 s.submitInfos[s.nextId].signalSemaphores, 1),
             <<toVkHandle(cmd.fence)>>),
        cmd.fence)

\* case *VkQueueSubmit
DoQueueSubmit(s, cmd) ==
    submitExecutionBegin(
        submitCollect(submitBegin(read(s, <<toVkHandle(cmd.queue)>>), cmd), cmd),
        cmd)

-----------------------------------------------------------------------------
(* Semaphores, fences, events *)

\* case *VkCreateSemaphore (the collaborator's mutate adds the semaphore).
DoCreateSemaphore(s, cmd) ==
    [write([s EXCEPT !.Semaphores = @ \cup {cmd.semaphore}], <<toVkHandle(cmd.semaphore)>>)
       EXCEPT !.semaphoreSignals = MapPut(@, cmd.semaphore, s.nextLabelVal),
              !.nextLabelVal = @ + 1]

\* case *VkCreateFence
DoCreateFence(s, cmd) ==
    [write(s, <<toVkHandle(cmd.fence)>>)
       EXCEPT !.fences = MapPut(@, cmd.fence,
                  [signal |-> s.nextLabelVal, unsignal |-> s.nextLabelVal + 1]),
              !.nextLabelVal = @ + 2]

\* case *VkCreateEvent
DoCreateEvent(s, cmd) ==
    [write(s, <<toVkHandle(cmd.event)>>)
       EXCEPT !.events = MapPut(@, cmd.event,
                  [signal |-> s.nextLabelVal, unsignal |-> s.nextLabelVal + 1]),
              !.nextLabelVal = @ + 2]

\* lines 2664-2666, r being the state after the read of the event handle.
signalEvent(r, cmd) ==
    IF ~r.ret THEN r
    ELSE IF cmd.event \notin DOMAIN r.events THEN Panic(r)
    ELSE KeepAlive(writeCoherentMemoryData(
                       write(r, <<Label(r.events[cmd.event].signal)>>),
                       cmd.observations))

\* case *VkSetEvent
DoSetEvent(s, cmd) == signalEvent(read(s, <<toVkHandle(cmd.event)>>), cmd)

-----------------------------------------------------------------------------
(* Resource bindings (resBinding, resBindingList)                          *)
(* A binding is a record; its identity, id, is that of the *resBinding.    *)
(* uint64 is modelled four bits wide.                                      *)

vkWholeSize == 15
U64(x) == (x + 4 * (vkWholeSize + 1)) % (vkWholeSize + 1)

\* the *resBinding as a DefUseVariable
ResBindingVar(id) == Var("resBinding", id, 0, 0)
\* &resBinding{resourceOffset, bindSize, backingData}
resBinding(id, resOffset, size, res) ==
    [id |-> id, resourceOffset |-> resOffset, bindSize |-> size, backingData |-> res]
\* resBinding.span
spanStart(bd) == bd.resourceOffset
spanEnd(bd) == U64(bd.resourceOffset + bd.bindSize)

\* resBinding.shrink, lines 650-652: the size asked for.
shrinkSize(bd, offset, size) ==
    IF size = vkWholeSize THEN U64(bd.bindSize - offset) ELSE size

\* resBinding.shrink, lines 653-667, sz being the size asked for: ok tells
\* whether no error is returned, bd is the binding afterwards.
shrinkTo(bd, offset, sz) ==
    IF U64(offset + sz) < offset \/ U64(offset + sz) > bd.bindSize
    THEN [ok |-> FALSE, bd |-> bd]
    ELSE IF bd.backingData.k = "memorySpan"
    THEN [ok |-> TRUE,
          bd |-> [bd EXCEPT !.bindSize = sz,
                            !.resourceOffset = U64(@ + offset),
                            !.backingData = Var("memorySpan", @.n, U64(@.a + offset),
                                                U64(@.a + offset + sz))]]
    ELSE [ok |-> offset = 0 /\ sz = bd.bindSize, bd |-> bd]

\* resBinding.shrink
shrink(bd, offset, size) == shrinkTo(bd, offset, shrinkSize(bd, offset, size))

\* newResBinding: the binding is resBinding(s.nextBinding, ...) of the state
\* before, and the behaviour writes it.
newResBinding(s) ==
    write([s EXCEPT !.nextBinding = @ + 1], <<ResBindingVar(s.nextBinding)>>)

\* interval.Intersect on a binding list.
IntersectBindings(l, a, b) ==
    firstAndCount({i \in 1..Len(l) : Overlaps(spanStart(l[i]), spanEnd(l[i]), a, b)})

\* addBinding, a prior binding p against the new span [a, e): what is left
\* of p below a, and what is left of it from e on (a duplicate, id, when p
\* is split in two).
leftOf(p, a) == shrink(p, 0, Min({spanEnd(p), a}) - spanStart(p))
rightOf(p, e, id) ==
    shrink([p EXCEPT !.id = id], Max({spanStart(p), e}) - spanStart(p),
           spanEnd(p) - Max({spanStart(p), e}))
isSplit(p, b) == spanStart(p) < spanStart(b) /\ spanEnd(p) > spanEnd(b)

\* A list that takes the new binding at its end and leaves the others alone.
appendBinding(l, b, dupId) == Append(l, b)

\* addBinding on a binding list: b is put in order; the bindings it overlaps
\* give way over the overlap (shrunk, split in two, dropped when covered).
addBinding_res(l, b, dupId) ==
    LET lefts == SelectSeq(l, LAMBDA p : spanStart(p) < spanStart(b))
        rights == SelectSeq(l, LAMBDA p : spanEnd(p) > spanEnd(b)
                                          /\ spanStart(p) >= spanStart(b))
        splits == SelectSeq(l, LAMBDA p : isSplit(p, b))
    IN [i \in 1..Len(lefts) |-> leftOf(lefts[i], spanStart(b)).bd]
       \o <<b>>
       \o [i \in 1..Len(splits) |-> rightOf(splits[i], spanEnd(b), dupId).bd]
       \o [i \in 1..Len(rights) |-> rightOf(rights[i], spanEnd(b), rights[i].id).bd]

\* addBinding fails when a binding that has to give way cannot shrink.
addBindingFails(l, b) ==
    \E i \in 1..Len(l) :
        \/ spanStart(l[i]) < spanStart(b) /\ ~leftOf(l[i], spanStart(b)).ok
        \/ spanEnd(l[i]) > spanEnd(b) /\ ~rightOf(l[i], spanEnd(b), l[i].id).ok

\* addResBinding: s.sub is the list returned, l itself when addBinding fails.
addResBinding(s, l, b) ==
    IF s.crashed THEN s
    ELSE IF addBindingFails(l, b) THEN [s EXCEPT !.sub = l]
    ELSE [s EXCEPT !.sub = addBinding_res(l, b, s.nextBinding),
                   !.nextBinding = IF \E i \in 1..Len(l) : isSplit(l[i], b)
                                   THEN @ + 1 ELSE @,
                   !.defB = IF \E i \in 1..Len(l) :
                                  isSplit(l[i], b) /\ ResBindingVar(l[i].id) \in DOMAIN @
                            THEN MapPut(@, ResBindingVar(s.nextBinding),
                                        @[ResBindingVar(
                                            (CHOOSE p \in Range(l) : isSplit(p, b)).id)])
                            ELSE @]

\* vb.buffers[vkBuf], the nil list when the map has no entry.
buffersOf(s, vkBuf) == IF vkBuf \in DOMAIN s.buffers THEN s.buffers[vkBuf] ELSE <<>>

\* vb.buffers[vkBuf] = (the list addResBinding returned)
storeBuffer(r, vkBuf) ==
    IF r.crashed THEN r ELSE [r EXCEPT !.buffers = MapPut(@, vkBuf, r.sub)]

\* vb.images[vkImg].opaqueData = (the list addResBinding returned)
storeOpaque(r, vkImg) ==
    IF r.crashed THEN r ELSE [r EXCEPT !.images[vkImg].opaqueData = r.sub]

\* addBufferMemBinding
addBufferMemBinding(s, vkBuf, vkMem, resOffset, size, memOffset) ==
    IF s.crashed THEN s
    ELSE storeBuffer(addResBinding(newResBinding(s), buffersOf(s, vkBuf),
                                   resBinding(s.nextBinding, resOffset, size,
                                              newMemorySpan(vkMem, memOffset, size))),
                     vkBuf)

\* addOpaqueImageMemBinding: vb.images[vkImg] is nil for an image without a
\* shadow entry.
addOpaqueImageMemBinding(s, vkImg, vkMem, resOffset, size, memOffset) ==
    IF s.crashed THEN s
    ELSE IF vkImg \notin DOMAIN s.images THEN Panic(s)
    ELSE storeOpaque(addResBinding(newResBinding(s), s.images[vkImg].opaqueData,
                                   resBinding(s.nextBinding, resOffset, size,
                                              newMemorySpan(vkMem, memOffset, size))),
                     vkImg)

\* addSwapchainImageMemBinding: newNonSpanResBinding(vkWholeSize), whose
\* backing data is a new label.
addSwapchainImageMemBinding(s, vkImg) ==
    IF s.crashed THEN s
    ELSE storeOpaque(addResBinding(newResBinding(newLabel(s)), s.images[vkImg].opaqueData,
                                   resBinding(s.nextBinding, 0, vkWholeSize,
                                              Label(s.nextLabelVal))),
                     vkImg)

\* vb.images[vkImg] = newImageLayoutAndData(ctx, bh)
newImageLayoutAndData(s, vkImg) ==
    IF s.crashed THEN s
    ELSE [write(newLabel(s), <<Label(s.nextLabelVal)>>)
            EXCEPT !.images = MapPut(@, vkImg, [layout |-> Label(s.nextLabelVal),
                                                opaqueData |-> <<>>])]

\* case *VkCreateImage
DoCreateImage(s, cmd) ==
    newImageLayoutAndData(write(s, <<toVkHandle(cmd.image)>>), cmd.image)

\* case *VkCreateBuffer
DoCreateBuffer(s, cmd) == write(s, <<toVkHandle(cmd.buffer)>>)

\* case *VkBindImageMemory, cmd.size being the size subInferImageSize infers
\* from the collaborator's image object.
DoBindImageMemory(s, cmd) ==
    addOpaqueImageMemBinding(
        read(read(s, <<toVkHandle(cmd.image)>>), <<toVkHandle(cmd.memory)>>),
        cmd.image, cmd.memory, 0, cmd.size, cmd.memoryOffset)

\* case *VkBindBufferMemory, cmd.size being the size of the collaborator's
\* buffer object.
DoBindBufferMemory(s, cmd) ==
    addBufferMemBinding(
        read(read(s, <<toVkHandle(cmd.buffer)>>), <<toVkHandle(cmd.memory)>>),
        cmd.buffer, cmd.memory, 0, cmd.size, cmd.memoryOffset)

\* case *VkGetSwapchainImagesKHR, lines 1754-1760: one image of the swapchain.
swapchainLabels(r, vkSw) ==
    IF r.crashed THEN r
    ELSE [r EXCEPT !.swapchainImageAcquired =
                       MapPut(@, vkSw, Append(IF vkSw \in DOMAIN @ THEN @[vkSw] ELSE <<>>,
                                              Label(r.nextLabelVal))),
                   !.swapchainImagePresented =
                       MapPut(@, vkSw, Append(IF vkSw \in DOMAIN @ THEN @[vkSw] ELSE <<>>,
                                              Label(r.nextLabelVal + 1))),
                   !.nextLabelVal = @ + 2]

RECURSIVE swapchainImagesFrom(_, _, _)
swapchainImagesFrom(s, cmd, i) ==
    IF i > Len(cmd.images) \/ s.crashed THEN s
    ELSE swapchainImagesFrom(
             swapchainLabels(
                 addSwapchainImageMemBinding(
                     newImageLayoutAndData(write(s, <<toVkHandle(cmd.images[i])>>),
                                           cmd.images[i]),
                     cmd.images[i]),
                 cmd.swapchain),
             cmd, i + 1)

\* case *VkGetSwapchainImagesKHR: cmd.images is empty when pSwapchainImages
\* is null.
DoGetSwapchainImagesKHR(s, cmd) ==
    IF cmd.images = <<>>
    THEN modify(read(s, <<toVkHandle(cmd.swapchain)>>), <<toVkHandle(cmd.swapchain)>>)
    ELSE swapchainImagesFrom(read(s, <<toVkHandle(cmd.swapchain)>>), cmd, 1)

\* case *VkQueueBindSparse: one bind of a buffer, r being the state after
\* the read of the memory handle.
sparseBufferBind(r, buf, bind) ==
    IF r.ret
    THEN addBufferMemBinding(r, buf, bind.memory, bind.resourceOffset, bind.size,
                             bind.memoryOffset)
    ELSE r

RECURSIVE sparseBufferBinds(_, _, _, _)
sparseBufferBinds(r, buf, binds, i) ==
    IF i > Len(binds) \/ r.crashed THEN r
    ELSE sparseBufferBinds(
             sparseBufferBind(read(r, <<toVkHandle(binds[i].memory)>>), buf, binds[i]),
             buf, binds, i + 1)

\* one bind of an image's opaque memory.
sparseOpaqueBind(r, img, bind) ==
    IF r.ret
    THEN addOpaqueImageMemBinding(r, img, bind.memory, bind.resourceOffset, bind.size,
                                  bind.memoryOffset)
    ELSE r

RECURSIVE sparseOpaqueBinds(_, _, _, _)
sparseOpaqueBinds(r, img, binds, i) ==
    IF i > Len(binds) \/ r.crashed THEN r
    ELSE sparseOpaqueBinds(
             sparseOpaqueBind(read(r, <<toVkHandle(binds[i].memory)>>), img, binds[i]),
             img, binds, i + 1)

\* the binds of one resource, r being the state after the read of its handle.
sparseGroup(r, group) ==
    IF ~r.ret THEN r
    ELSE IF group.kind = "buffer" THEN sparseBufferBinds(r, group.resource, group.binds, 1)
    ELSE sparseOpaqueBinds(r, group.resource, group.binds, 1)

RECURSIVE sparseGroups(_, _, _)
sparseGroups(s, groups, i) ==
    IF i > Len(groups) \/ s.crashed THEN s
    ELSE sparseGroups(sparseGroup(read(s, <<toVkHandle(groups[i].resource)>>), groups[i]),
                      groups, i + 1)

\* case *VkQueueBindSparse: the buffer binds, then the opaque image binds of
\* the bind info.
DoQueueBindSparse(s, cmd) ==
    sparseGroups(sparseGroups(read(s, <<toVkHandle(cmd.queue)>>), cmd.bufferBinds, 1),
                 cmd.opaqueBinds, 1)

-----------------------------------------------------------------------------
(* Sub-bindings of a range of a resource *)

\* getSubBindingList, lines 743-746: the size after the test for overflow.
subBindingSize(offset, size) ==
    IF U64(offset + size) < offset THEN vkWholeSize - offset ELSE size

\* A sub-binding that keeps the span of the binding it is made from.
subBindingUnshrunk(bd, offset, size) == [ok |-> TRUE, bd |-> bd]

\* resBinding.newSubBinding, lines 698-702: the duplicate, shrunk.
subBindingOf(bd, offset, size) == shrink(bd, offset, size)

\* write(ctx, bh, subBinding) and read(ctx, bh, bl[i]), which a nil bh skips.
writeUnlessNil(s, c) == IF s.nobh THEN s ELSE write(s, <<c>>)
readUnlessNil(s, c) == IF s.nobh THEN s ELSE read(s, <<c>>)

\* resBinding.newSubBinding: the duplicate joins s.sub and is written, unless
\* shrink returns an error.
newSubBinding(s, bd, offset, size) ==
    IF s.crashed THEN s
    ELSE IF ~subBindingOf(bd, offset, size).ok THEN [s EXCEPT !.nextBinding = @ + 1]
    ELSE [writeUnlessNil([s EXCEPT !.nextBinding = @ + 1], ResBindingVar(s.nextBinding))
            EXCEPT !.sub = Append(@, [subBindingOf(bd, offset, size).bd
                                        EXCEPT !.id = s.nextBinding])]

\* getSubBindingList, lines 753-769: the binding bd of the list against the
\* range [offset, offset + size).
subBindingAt(s, bd, offset, size) ==
    newSubBinding(readUnlessNil(s, ResBindingVar(bd.id)), bd,
                  U64(Max({spanStart(bd), offset}) - spanStart(bd)),
                  U64(Min({spanEnd(bd), U64(offset + size)})
                      - Max({spanStart(bd), offset})))

RECURSIVE subBindingsFrom(_, _, _, _, _, _)
subBindingsFrom(s, l, i, last, offset, size) ==
    IF i > last \/ s.crashed THEN s
    ELSE subBindingsFrom(subBindingAt(s, l[i], offset, size), l, i + 1, last,
                         offset, size)

\* getSubBindingList, lines 747-772, size being the size after the test for
\* overflow.
subBindingsOver(s, l, r, offset, size) ==
    IF r.count = 0 THEN s
    ELSE subBindingsFrom(s, l, r.first, r.first + r.count - 1, offset, size)

subBindingsIn(s, l, offset, size) ==
    subBindingsOver(s, l, IntersectBindings(l, offset, U64(offset + size)), offset, size)

\* resBindingList.getSubBindingList: s.sub is the list returned.
getSubBindingList(s, l, offset, size) ==
    IF s.crashed THEN s
    ELSE subBindingsIn([s EXCEPT !.sub = <<>>], l, offset, subBindingSize(offset, size))

\* getBoundData, lines 781-789: the backing data of the sub-bindings; the
\* call and the sub-bindings are kept in emitted.
boundDataOf(r, l, offset, size) ==
    IF r.crashed THEN r
    ELSE [r EXCEPT !.data = [i \in 1..Len(r.sub) |-> r.sub[i].backingData],
                   !.emitted = [op |-> "getSubBindingList", list |-> l,
                                offset |-> offset, size |-> size, sub |-> r.sub]]

\* resBindingList.getBoundData: s.data is the list returned.
getBoundData(s, l, offset, size) ==
    boundDataOf(getSubBindingList(s, l, offset, size), l, offset, size)

\* getBufferData, lines 1296-1298: the read of every binding of the buffer.
RECURSIVE readBindings(_, _, _)
readBindings(s, l, i) ==
    IF i > Len(l) \/ s.crashed THEN s
    ELSE readBindings(read(s, <<ResBindingVar(l[i].id)>>), l, i + 1)

\* FootprintBuilder.getBufferData: s.data is the list returned.
getBufferData(s, vkBuf, offset, size) ==
    getBoundData(readBindings(read(s, <<toVkHandle(vkBuf)>>), buffersOf(s, vkBuf), 1),
                 buffersOf(s, vkBuf), offset, size)

\* read(ctx, bh, data...), the data being what the call before returned.
readData(r) == IF r.crashed THEN r ELSE read(r, r.data)

\* case *VkCreateBufferView
DoCreateBufferView(s, cmd) ==
    readData(getBufferData(write(s, <<toVkHandle(cmd.view)>>), cmd.buffer,
                           cmd.offset, cmd.size))

\* getImageData, lines 1162-1178: nothing for an image without a shadow
\* entry, else the data bound to the whole image (no image of the traces has
\* sparse blocks).
imageDataOf(r, vkImg) ==
    IF r.crashed THEN r
    ELSE IF vkImg \notin DOMAIN r.images THEN [r EXCEPT !.data = <<>>]
    ELSE getBoundData(r, r.images[vkImg].opaqueData, 0, vkWholeSize)

\* getImageData, lines 1163-1168: the reads of a call with a behaviour, r
\* being the state after the read of the handle.
readLayoutOf(s, r, vkImg) ==
    IF ~r.ret THEN r
    ELSE IF vkImg \notin DOMAIN s.images THEN Panic(s)
    ELSE read(r, <<s.images[vkImg].layout>>)

readImage(s, vkImg) ==
    IF s.nobh THEN s ELSE readLayoutOf(s, read(s, <<toVkHandle(vkImg)>>), vkImg)

\* no data when the read of the handle failed
imageDataAfter(r, vkImg) ==
    IF r.crashed THEN r
    ELSE IF ~r.nobh /\ ~r.ret THEN [r EXCEPT !.data = <<>>]
    ELSE imageDataOf(r, vkImg)

\* FootprintBuilder.getImageData: s.data is the list returned.  With a
\* behaviour, the handle and the layout are read first, and the read of the
\* layout dereferences vb.images[vkImg].
getImageData(s, vkImg) ==
    IF s.crashed THEN s ELSE imageDataAfter(readImage(s, vkImg), vkImg)

\* FootprintBuilder.getImageLayoutAndData: the layout returned is
\* vb.images[vkImg].layout, which dereferences vb.images[vkImg].
getImageLayoutAndData(s, vkImg) ==
    IF s.crashed THEN s
    ELSE IF vkImg \notin DOMAIN s.images THEN Panic(s)
    ELSE getImageData(read(s, <<toVkHandle(vkImg)>>), vkImg)

-----------------------------------------------------------------------------
(* VkBeginCommandBuffer, VkResetCommandBuffer *)

\* A Begin or Reset that leaves the recorded commands where they are.
keepCommands(r, vkCb) == r

\* A Begin or Reset that empties the list in place, so that the pending
\* lists lose the commands of the command buffer as well.
clearInPlace(r, vkCb) ==
    IF r.crashed THEN r
    ELSE [r EXCEPT !.commands = MapPut(@, vkCb, <<>>),
                   !.submitInfos =
                       [id \in DOMAIN @ |->
                           [@[id] EXCEPT !.pendingCommands =
                               SelectSeq(@, LAMBDA sc :
                                   vkCb \notin DOMAIN r.commands
                                   \/ sc.cmd \notin Range(r.commands[vkCb]))]]]

\* vb.commands[vkCb] = []*commandBufferCommand{}
clearCommands(r, vkCb) ==
    IF r.crashed THEN r ELSE [r EXCEPT !.commands = MapPut(@, vkCb, <<>>)]

\* case *VkResetCommandBuffer
DoResetCommandBuffer(s, cmd) ==
    IF cmd.commandBuffer \in DOMAIN s.commandBuffers
    THEN clearCommands(
             write(write(read(s, <<toVkHandle(cmd.commandBuffer)>>),
                         <<Label(s.commandBuffers[cmd.commandBuffer].begin)>>),
                   <<Label(s.commandBuffers[cmd.commandBuffer].end)>>),
             cmd.commandBuffer)
    ELSE read(s, <<toVkHandle(cmd.commandBuffer)>>)

\* case *VkBeginCommandBuffer
DoBeginCommandBuffer(s, cmd) ==
    IF cmd.commandBuffer \in DOMAIN s.commandBuffers
    THEN clearCommands(
             write(read(s, <<toVkHandle(cmd.commandBuffer)>>),
                   <<Label(s.commandBuffers[cmd.commandBuffer].begin)>>),
             cmd.commandBuffer)
    ELSE read(s, <<toVkHandle(cmd.commandBuffer)>>)

-----------------------------------------------------------------------------
(* Destroy and free commands *)

\* A destroy that never keeps its behaviour alive.
aliveNever(r) == r

\* bh.Alive = true inside 'if read(ctx, bh, handle)', r being the state
\* after the read.
aliveIfRead(r) == IF r.ret THEN KeepAlive(r) ELSE r

\* case *VkFreeMemory (the collaborator's mutate drops the memory object).
DoFreeMemory(s, cmd) ==
    KeepAlive(read([s EXCEPT !.DeviceMemories = MapRemove(@, cmd.memory)],
                   <<toVkHandle(cmd.memory)>>))

\* case *VkDestroyImageView, and the cases alike: the read of the handle.
DoDestroyImageView(s, cmd) == KeepAlive(read(s, <<toVkHandle(cmd.imageView)>>))

\* case *VkDestroyImage
DoDestroyImage(s, cmd) ==
    KeepAlive(IF read(s, <<toVkHandle(cmd.image)>>).ret
              THEN [read(s, <<toVkHandle(cmd.image)>>)
                      EXCEPT !.images = MapRemove(@, cmd.image)]
              ELSE read(s, <<toVkHandle(cmd.image)>>))

\* case *VkDestroyBuffer
DoDestroyBuffer(s, cmd) ==
    KeepAlive(IF read(s, <<toVkHandle(cmd.buffer)>>).ret
              THEN [read(s, <<toVkHandle(cmd.buffer)>>)
                      EXCEPT !.buffers = MapRemove(@, cmd.buffer)]
              ELSE read(s, <<toVkHandle(cmd.buffer)>>))

\* case *VkDestroySemaphore (the collaborator's mutate drops the semaphore).
DoDestroySemaphore(s, cmd) ==
    aliveIfRead([read(s, <<toVkHandle(cmd.semaphore)>>)
                   EXCEPT !.semaphoreSignals = MapRemove(@, cmd.semaphore),
                          !.Semaphores = @ \ {cmd.semaphore}])

\* case *VkDestroyEvent
DoDestroyEvent(s, cmd) ==
    aliveIfRead([read(s, <<toVkHandle(cmd.event)>>)
                   EXCEPT !.events = MapRemove(@, cmd.event)])

\* case *VkDestroyFence
DoDestroyFence(s, cmd) ==
    aliveIfRead([read(s, <<toVkHandle(cmd.fence)>>)
                   EXCEPT !.fences = MapRemove(@, cmd.fence)])

\* case *VkFreeCommandBuffers, lines 2029-2037: one command buffer.
freeCommandBuffer(s, vkCb) ==
    IF vkCb \notin DOMAIN s.commandBuffers THEN s
    ELSE IF ~read(s, <<toVkHandle(vkCb)>>).ret THEN read(s, <<toVkHandle(vkCb)>>)
    ELSE [write(write(read(s, <<toVkHandle(vkCb)>>),
                      <<Label(s.commandBuffers[vkCb].begin)>>),
                <<Label(s.commandBuffers[vkCb].end)>>)
            EXCEPT !.commandBuffers = MapRemove(@, vkCb),
                   !.commands = MapRemove(@, vkCb)]

RECURSIVE freeCommandBuffers(_, _, _)
freeCommandBuffers(s, cbs, i) ==
    IF i > Len(cbs) \/ s.crashed THEN s
    ELSE freeCommandBuffers(freeCommandBuffer(s, cbs[i]), cbs, i + 1)

\* case *VkFreeCommandBuffers
DoFreeCommandBuffers(s, cmd) == KeepAlive(freeCommandBuffers(s, cmd.commandBuffers, 1))

-----------------------------------------------------------------------------
(* Waits and status queries *)

\* A status query that reads nothing and keeps nothing alive.
readNoSignals(r, known, obj) == r

\* lines 2739-2743 and 2758-2762, r being the state after the read of the
\* handle and obj the shadow object of the handle, NilLabel for none: the
\* reads of the two labels dereference the object.
readSignals(r, known, obj) ==
    IF ~r.ret \/ r.crashed THEN r
    ELSE IF ~known THEN Panic(r)
    ELSE KeepAlive(read(read(r, <<Label(obj.signal)>>), <<Label(obj.unsignal)>>))

\* case *VkGetEventStatus
DoGetEventStatus(s, cmd) ==
    readSignals(read(s, <<toVkHandle(cmd.event)>>), cmd.event \in DOMAIN s.events,
                IF cmd.event \in DOMAIN s.events THEN s.events[cmd.event] ELSE NilLabel)

\* case *VkGetFenceStatus
DoGetFenceStatus(s, cmd) ==
    readSignals(read(s, <<toVkHandle(cmd.fence)>>), cmd.fence \in DOMAIN s.fences,
                IF cmd.fence \in DOMAIN s.fences THEN s.fences[cmd.fence] ELSE NilLabel)

RECURSIVE waitForFences(_, _, _)
waitForFences(s, fs, i) ==
    IF i > Len(fs) \/ s.crashed THEN s
    ELSE waitForFences(
             readSignals(read(s, <<toVkHandle(fs[i])>>), fs[i] \in DOMAIN s.fences,
                         IF fs[i] \in DOMAIN s.fences THEN s.fences[fs[i]] ELSE NilLabel),
             fs, i + 1)

\* case *VkWaitForFences
DoWaitForFences(s, cmd) == waitForFences(s, cmd.fences, 1)

\* case *VkQueueWaitIdle
DoQueueWaitIdle(s, cmd) ==
    IF read(s, <<toVkHandle(cmd.queue)>>).ret /\ cmd.queue \in DOMAIN s.executionStates
    THEN KeepAlive(read(s, <<toVkHandle(cmd.queue)>>))
    ELSE read(s, <<toVkHandle(cmd.queue)>>)

\* case *VkDeviceWaitIdle: one queue that was submitted to.
RECURSIVE deviceWaitIdle(_, _)
deviceWaitIdle(s, todo) ==
    IF todo = {} \/ s.crashed THEN s
    ELSE deviceWaitIdle(
             KeepAlive(read(s, <<Label(s.submitInfos[
                                   s.executionStates[Min(todo)].lastSubmitID].done)>>)),
             todo \ {Min(todo)})

\* case *VkDeviceWaitIdle
DoDeviceWaitIdle(s, cmd) == deviceWaitIdle(s, DOMAIN s.executionStates)

-----------------------------------------------------------------------------
(* Swapchains and the presentation engine *)

\* case *VkCreateSwapchainKHR
DoCreateSwapchainKHR(s, cmd) == write(s, <<toVkHandle(cmd.swapchain)>>)

\* vb.swapchainImageAcquired[vkSw][imgID] has an element to index.
hasSwapchainImage(s, vkSw, imgID) ==
    /\ vkSw \in DOMAIN s.swapchainImageAcquired
    /\ imgID < Len(s.swapchainImageAcquired[vkSw])
\* The two labels of the image; the slices are indexed from 0.
acquiredLabel(s, vkSw, imgID) == s.swapchainImageAcquired[vkSw][imgID + 1]
presentedLabel(s, vkSw, imgID) == s.swapchainImagePresented[vkSw][imgID + 1]

\* lines 1772-1774, r being the state after the read of the semaphore handle.
acquireSemaphore(r, vkSp) ==
    IF r.ret /\ ~r.crashed THEN write(r, <<semaphoreSignal(r, vkSp)>>) ELSE r

\* lines 1775-1777, r being the state after the read of the fence handle.
acquireFence(r, vkFe) ==
    IF ~r.ret \/ r.crashed THEN r
    ELSE IF vkFe \notin DOMAIN r.fences THEN Panic(r)
    ELSE write(r, <<Label(r.fences[vkFe].signal)>>)

\* lines 1784-1785, t being the state after getImageLayoutAndData.
writeLayoutAndData(t, vkImg) ==
    IF t.crashed THEN t ELSE write(write(t, <<t.images[vkImg].layout>>), t.data)

\* lines 1782-1786, r being the state after the read of the image handle.
acquireImage(r, vkImg) ==
    IF ~r.ret \/ r.crashed THEN r
    ELSE writeLayoutAndData(getImageLayoutAndData(r, vkImg), vkImg)

\* An acquire that leaves the labels of the presentation engine alone.
acquireUntracked(r, vkSw, imgID) == r

\* lines 1787-1788: indexing a missing element panics.
acquireLabels(r, vkSw, imgID) ==
    IF r.crashed THEN r
    ELSE IF ~hasSwapchainImage(r, vkSw, imgID) THEN Panic(r)
    ELSE read(write(r, <<acquiredLabel(r, vkSw, imgID)>>),
              <<presentedLabel(r, vkSw, imgID)>>)

\* case *VkAcquireNextImageKHR: cmd.imageIndex is what the driver wrote to
\* pImageIndex and cmd.image the image the collaborator has at that index.
DoAcquireNextImageKHR(s, cmd) ==
    acquireLabels(
        acquireImage(
            read(read(acquireFence(
                          read(acquireSemaphore(read(s, <<toVkHandle(cmd.semaphore)>>),
                                                cmd.semaphore),
                               <<toVkHandle(cmd.fence)>>),
                          cmd.fence),
                      <<toVkHandle(cmd.swapchain)>>),
                 <<toVkHandle(cmd.image)>>),
            cmd.image),
        cmd.swapchain, cmd.imageIndex)

\* lines 1795-1797 and 1815-1817, r being the state after the read of the
\* semaphore handle.
readSemaphoreSignal(r, vkSp) ==
    IF r.ret /\ ~r.crashed THEN read(r, <<semaphoreSignal(r, vkSp)>>) ELSE r

\* lines 1794-1798
RECURSIVE presentWaits(_, _, _)
presentWaits(s, sps, i) ==
    IF i > Len(sps) \/ s.crashed THEN s
    ELSE presentWaits(readSemaphoreSignal(read(s, <<toVkHandle(sps[i])>>), sps[i]),
                      sps, i + 1)

\* lines 1813-1818: the extra behaviour reads the queue once per semaphore.
RECURSIVE extraWaits(_, _, _, _)
extraWaits(s, queue, sps, i) ==
    IF i > Len(sps) \/ s.crashed THEN s
    ELSE extraWaits(readSemaphoreSignal(
                        read(read(s, <<toVkHandle(queue)>>), <<toVkHandle(sps[i])>>),
                        sps[i]),
                    queue, sps, i + 1)

\* lines 1805-1806, t being the state after getImageLayoutAndData.
readLayoutAndData(t, vkImg) ==
    IF t.crashed THEN t ELSE read(read(t, <<t.images[vkImg].layout>>), t.data)

\* A present whose extra behaviour does not write the presented label.
extraLabelsUnwritten(r, vkSw, imgID) ==
    IF r.crashed THEN r
    ELSE IF ~hasSwapchainImage(r, vkSw, imgID) THEN Panic(r)
    ELSE KeepAlive(read(r, <<acquiredLabel(r, vkSw, imgID)>>))

\* lines 1819-1821, r being the extra behaviour after its waits.
extraLabels(r, vkSw, imgID) ==
    IF r.crashed THEN r
    ELSE IF ~hasSwapchainImage(r, vkSw, imgID) THEN Panic(r)
    ELSE KeepAlive(write(read(r, <<acquiredLabel(r, vkSw, imgID)>>),
                         <<presentedLabel(r, vkSw, imgID)>>))

\* The behaviour of the command is the one being stamped again.
resume(r, bh) == IF r.crashed THEN r ELSE [r EXCEPT !.cur = bh]

\* lines 1812-1822: the extra behaviour of one presented image, t being the
\* state after the reads of the command's behaviour.
presentExtra(t, cmd, p) ==
    IF t.crashed THEN t
    ELSE resume(AddBehavior(extraLabels(
                    extraWaits(NewBehavior(t, <<t.nextId>>, "present"), cmd.queue,
                               cmd.waitSemaphores, 1),
                    p.swapchain, p.imageIndex)),
                t.cur)

\* lines 1802-1822: p.image is the image the collaborator has at p.imageIndex.
presentSwapchain(s, cmd, p) ==
    presentExtra(readLayoutAndData(
                     getImageLayoutAndData(read(s, <<toVkHandle(p.swapchain)>>), p.image),
                     p.image),
                 cmd, p)

\* lines 1801-1823
RECURSIVE presentSwapchains(_, _, _)
presentSwapchains(s, cmd, i) ==
    IF i > Len(cmd.swapchains) \/ s.crashed THEN s
    ELSE presentSwapchains(presentSwapchain(s, cmd, cmd.swapchains[i]), cmd, i + 1)

\* case *VkQueuePresentKHR
DoQueuePresentKHR(s, cmd) ==
    presentSwapchains(presentWaits(read(s, <<toVkHandle(cmd.queue)>>),
                                   cmd.waitSemaphores, 1),
                      cmd, 1)

-----------------------------------------------------------------------------
(* VkMapMemory, VkUnmapMemory *)

\* lines 1602-1606: a coherent memory joins the set with its memory object,
\* which holds the mapping the collaborator's mutate made; r is the state
\* after the modify of the memory handle.
mapCoherent(r, cmd) ==
    IF r.crashed THEN r
    ELSE IF cmd.memory \in DOMAIN r.DeviceMemories /\ r.DeviceMemories[cmd.memory].coherent
    THEN [r EXCEPT !.mappedCoherentMemories =
                       MapPut(@, cmd.memory, [MappedOffset |-> cmd.offset,
                                              MappedSize |-> cmd.size,
                                              MappedLocation |-> cmd.address])]
    ELSE r

\* case *VkMapMemory
DoMapMemory(s, cmd) ==
    KeepAlive(mapCoherent(modify(s, <<toVkHandle(cmd.memory)>>), cmd))

\* lines 1612-1614
unmapCoherent(r, cmd) ==
    IF r.crashed THEN r
    ELSE [r EXCEPT !.mappedCoherentMemories = MapRemove(@, cmd.memory)]

\* An unmap that removes the memory from the set before the observations
\* are scanned.
unmapBeforeScan(s, cmd) ==
    KeepAlive(writeCoherentMemoryData(
                  unmapCoherent(modify(s, <<toVkHandle(cmd.memory)>>), cmd),
                  cmd.observations))

\* case *VkUnmapMemory
DoUnmapMemory(s, cmd) ==
    KeepAlive(unmapCoherent(
                  writeCoherentMemoryData(modify(s, <<toVkHandle(cmd.memory)>>),
                                          cmd.observations),
                  cmd))

-----------------------------------------------------------------------------
(* Render passes: VkCmdBeginRenderPass, VkCmdNextSubpass,                  *)
(* VkCmdEndRenderPass                                                      *)
(* A render pass object is a record: its handle, the attachment            *)
(* descriptions by attachment index and the subpass descriptions in key    *)
(* order; a framebuffer is its handle, its render pass, its extent and its *)
(* image views by attachment index.  uint32 is modelled eight bits wide.   *)

vkAttachmentUnused == 255
vkRemainingArrayLayers == 255
vkRemainingMipLevels == 255

\* a *subpassIndex as a variable of the graph; the nil pointer is NilLabel.
SubpassVar(sp) == IF sp.id = 0 THEN NilLabel ELSE Var("subpassIndex", sp.id, 0, 0)
\* a *forwardPairedLabel
ForwardPairedLabel(n) == Var("forwardPairedLabel", n, 0, 0)

\* VkAttachmentLoadOp.isLoad, VkAttachmentStoreOp.isStore
isLoad(o) == o = "LOAD"
isStore(o) == o = "STORE"

\* The nil *subpassAttachmentInfo.
NilAtt == [id |-> 0]

\* subpassInfo, as beginRenderPass appends it (lines 543-547).
newSubpassInfo ==
    [loadAttachments |-> <<>>, storeAttachments |-> <<>>, colorAttachments |-> <<>>,
     resolveAttachments |-> <<>>, inputAttachments |-> <<>>,
     depthStencilAttachment |-> NilAtt, modifiedDescriptorData |-> <<>>]

\* lines 490-504 and 584-598: whether the view covers the whole image;
\* remaining is the constant the layer count is compared with.
fullImageData(viewObj, fb, remaining) ==
    /\ viewObj.type \in {"2D", "2D_ARRAY"}
    /\ viewObj.baseArrayLayer = 0
    /\ (viewObj.arrayLayers = viewObj.layerCount \/ viewObj.layerCount = remaining)
    /\ viewObj.imageType = "2D"
    /\ viewObj.width = fb.width
    /\ viewObj.height = fb.height
    /\ (fb.layers = viewObj.arrayLayers \/ fb.layers = vkRemainingArrayLayers)

\* &subpassAttachmentInfo{fullImageData, imgData, imgLayout, attDesc}, r
\* being the state after getImageLayoutAndData; id is the identity of the
\* object and ai the attachment index it was made for.
attachmentInfo(r, rp, fb, ai, remaining) ==
    [id |-> r.nextAtt, ai |-> ai,
     fullImageData |-> fullImageData(fb.attachments[ai], fb, remaining),
     data |-> r.data, layout |-> r.images[fb.attachments[ai].image].layout,
     desc |-> rp.attachments[ai]]

\* recordAttachment, lines 505-513, r being the state after
\* getImageLayoutAndData: the new info joins the list it is returned to.
recordedAttachment(r, queue, rp, fb, ai, si, list) ==
    IF r.crashed THEN r
    ELSE [r EXCEPT !.executionStates[queue].subpasses[si + 1] =
                       [[@ EXCEPT ![list] =
                             Append(@, attachmentInfo(r, rp, fb, ai, vkRemainingArrayLayers))]
                           EXCEPT !.loadAttachments =
                               IF ai \in DOMAIN r.attLoadSubpass THEN @
                               ELSE Append(@, attachmentInfo(r, rp, fb, ai,
                                                             vkRemainingArrayLayers))],
                   !.attLoadSubpass = IF ai \in DOMAIN @ THEN @ ELSE MapPut(@, ai, si),
                   !.attStoreSubpass = MapPut(@, ai, si),
                   !.attStoreAttInfo =
                       MapPut(@, ai, attachmentInfo(r, rp, fb, ai, vkRemainingArrayLayers)),
                   !.nextAtt = @ + 1]

\* recordAttachment(ai, si) and the append of its result to a list of the
\* subpass; a framebuffer without the attachment gives a nil view.
recordAttachment(s, queue, rp, fb, ai, si, list) ==
    IF s.crashed THEN s
    ELSE IF ai \notin DOMAIN fb.attachments \/ ai \notin DOMAIN rp.attachments
    THEN Panic(s)
    ELSE recordedAttachment(getImageLayoutAndData(s, fb.attachments[ai].image),
                            queue, rp, fb, ai, si, list)

\* colorAs, resolveAs, inputAs: the attachment indices of a reference array.
attachmentSet(refs) == Range(refs) \ {vkAttachmentUnused}

\* lines 561-575: the attachment joins a list of the subpass when the
\* subpass references it there.
recordIn(s, queue, rp, fb, as, ai, si, list) ==
    IF ai \in as THEN recordAttachment(s, queue, rp, fb, ai, si, list) ELSE s

\* lines 560-576: the attachment indices of the render pass, in key order.
RECURSIVE recordFrom(_, _, _, _, _, _, _)
recordFrom(s, queue, rp, fb, desc, ai, si) ==
    IF ai \notin DOMAIN rp.attachments \/ s.crashed THEN s
    ELSE recordFrom(
             recordIn(
                 recordIn(
                     recordIn(s, queue, rp, fb, attachmentSet(desc.colorAttachments),
                              ai, si, "colorAttachments"),
                     queue, rp, fb, attachmentSet(desc.resolveAttachments),
                     ai, si, "resolveAttachments"),
                 queue, rp, fb, attachmentSet(desc.inputAttachments),
                 ai, si, "inputAttachments"),
             queue, rp, fb, desc, ai + 1, si)

\* the image of a view is read when the read of the view succeeded
readImageOf(r, fb, ai) ==
    IF r.ret THEN read(r, <<toVkHandle(fb.attachments[ai].image)>>) ELSE r

\* lines 554-558 and 2205-2209: the views of the framebuffer and their images.
RECURSIVE readAttachmentsFrom(_, _, _)
readAttachmentsFrom(s, fb, ai) ==
    IF ai \notin DOMAIN fb.attachments \/ s.crashed THEN s
    ELSE readAttachmentsFrom(
             readImageOf(read(s, <<toVkHandle(fb.attachments[ai].handle)>>), fb, ai),
             fb, ai + 1)

\* lines 599-600, r being the state after getImageLayoutAndData.
depthStencilRecorded(r, queue, rp, fb, dsAi, si) ==
    IF r.crashed THEN r
    ELSE [r EXCEPT !.executionStates[queue].subpasses[si + 1].depthStencilAttachment =
                       attachmentInfo(r, rp, fb, dsAi, vkRemainingMipLevels),
                   !.nextAtt = @ + 1]

\* lines 577-602: desc.depthStencilAttachment is <<>> when the pointer is
\* nil, the reference otherwise.
depthStencil(s, queue, rp, fb, desc, si) ==
    IF s.crashed \/ desc.depthStencilAttachment = <<>> THEN s
    ELSE IF desc.depthStencilAttachment[1] = vkAttachmentUnused THEN s
    ELSE IF \/ desc.depthStencilAttachment[1] \notin DOMAIN fb.attachments
            \/ desc.depthStencilAttachment[1] \notin DOMAIN rp.attachments
    THEN Panic(s)
    ELSE depthStencilRecorded(
             getImageLayoutAndData(s, fb.attachments[desc.depthStencilAttachment[1]].image),
             queue, rp, fb, desc.depthStencilAttachment[1], si)

\* lines 522-603: one subpass description.
describeSubpass(s, queue, rp, fb, si) ==
    depthStencil(
        recordFrom(
            readAttachmentsFrom(
                [s EXCEPT !.executionStates[queue].subpasses = Append(@, newSubpassInfo)],
                fb, 0),
            queue, rp, fb, rp.subpasses[si + 1], 0, si),
        queue, rp, fb, rp.subpasses[si + 1], si)

RECURSIVE describeFrom(_, _, _, _, _)
describeFrom(s, queue, rp, fb, si) ==
    IF si >= Len(rp.subpasses) \/ s.crashed THEN s
    ELSE describeFrom(describeSubpass(s, queue, rp, fb, si), queue, rp, fb, si + 1)

\* noDsAttLoadOp, lines 341-354
noDsAttLoadOp(s, attachment) ==
    emitAs(modify(s, <<attachment.layout>>), attachment.data,
           IF isLoad(attachment.desc.loadOp) THEN "read"
           ELSE IF attachment.fullImageData THEN "write"
           ELSE "modify")

\* dsAttLoadOp, lines 355-370
dsAttLoadOp(s, attachment) ==
    emitAs(modify(s, <<attachment.layout>>), attachment.data,
           IF ~isLoad(attachment.desc.loadOp) /\ ~isLoad(attachment.desc.stencilLoadOp)
           THEN IF attachment.fullImageData THEN "write" ELSE "modify"
           ELSE IF isLoad(attachment.desc.loadOp) /\ isLoad(attachment.desc.stencilLoadOp)
           THEN "read"
           ELSE "modify")

\* lines 371-377: the load attachments of the subpass, in order.
RECURSIVE loadFrom(_, _, _)
loadFrom(s, sp, i) ==
    IF i > Len(sp.loadAttachments) \/ s.crashed THEN s
    ELSE IF sp.depthStencilAttachment.id = sp.loadAttachments[i].id
    THEN loadFrom(dsAttLoadOp(s, sp.loadAttachments[i]), sp, i + 1)
    ELSE loadFrom(noDsAttLoadOp(s, sp.loadAttachments[i]), sp, i + 1)

\* The subpass the execution state is in: subpasses[subpass.val].
inSubpass(s, queue) ==
    s.executionStates[queue].subpasses[s.executionStates[queue].subpass.val + 1]
\* Whether subpasses[subpass.val] can be evaluated.
hasSubpass(s, queue) ==
    /\ s.executionStates[queue].subpass.id # 0
    /\ s.executionStates[queue].subpass.val < Len(s.executionStates[queue].subpasses)

\* queueExecutionState.startSubpass
startSubpass(s, queue) ==
    IF s.crashed THEN s
    ELSE IF ~hasSubpass(s, queue) THEN Panic(s)
    ELSE loadFrom(write(s, <<SubpassVar(s.executionStates[queue].subpass)>>),
                  inSubpass(s, queue), 1)

\* lines 515-520, the deferred function: the last info recorded for an
\* attachment joins the store attachments of the last subpass that
\* referenced it.  The map is ranged over in no particular order; the list
\* is only searched (isStoreAtt), so that it is kept in key order here.
RECURSIVE storeFrom(_, _, _)
storeFrom(s, queue, keys) ==
    IF keys = {} \/ s.crashed THEN s
    ELSE storeFrom(
             [s EXCEPT !.executionStates[queue]
                          .subpasses[s.attStoreSubpass[Min(keys)] + 1].storeAttachments =
                              Append(@, s.attStoreAttInfo[Min(keys)])],
             queue, keys \ {Min(keys)})

storeDeferred(r, queue) == storeFrom(r, queue, DOMAIN r.attStoreSubpass)

\* line 604: qei.subpass = &subpassIndex{0, nil}
firstSubpass(r, queue) ==
    IF r.crashed THEN r
    ELSE [r EXCEPT !.executionStates[queue].subpass = [id |-> r.nextAtt, val |-> 0],
                   !.nextAtt = @ + 1]

\* lines 474-484: the handles are read and the lists and maps are made.
enterRenderPass(s, queue, rp, fb) ==
    [read(read(s, <<toVkHandle(rp.handle)>>), <<toVkHandle(fb.handle)>>)
        EXCEPT !.executionStates[queue].subpasses = <<>>,
               !.attLoadSubpass = EmptyMap,
               !.attStoreSubpass = EmptyMap,
               !.attStoreAttInfo = EmptyMap]

\* queueExecutionState.beginRenderPass; the deferred function runs last.
beginRenderPass(s, queue, rp, fb) ==
    storeDeferred(
        startSubpass(
            firstSubpass(describeFrom(enterRenderPass(s, queue, rp, fb), queue, rp, fb, 0),
                         queue),
            queue),
        queue)

\* The role of the behaviour being stamped; it tells the place of the source
\* that created it.
as(s, role) == IF s.crashed THEN s ELSE [s EXCEPT !.cur.role = role]

\* lines 397-407 and 415-423: the store op on the data of the attachment.
storeData(s, att, stored) ==
    emitAs(s, att.data, IF ~stored /\ att.fullImageData THEN "write" ELSE "modify")

\* lines 394-396: readAtt is NilAtt when no attachment is read.
readAttachment(s, readAtt) == IF readAtt.id = 0 THEN s ELSE read(s, readAtt.data)

\* noDsAttStoreOp, lines 388-391: the behaviour for the layout.
behaviorForLayout(s, sc, queue, att) ==
    AddBehavior(
        read(modify(as(newBehavior(s, sc, queue), "storeLayout"), <<att.layout>>),
             <<SubpassVar(s.executionStates[queue].subpass)>>))

\* noDsAttStoreOp, lines 393-409: the behaviour for the data.
behaviorForData(s, sc, queue, att, readAtt) ==
    AddBehavior(
        read(storeData(readAttachment(as(newBehavior(s, sc, queue), "storeData"),
                                      readAtt),
                       att, isStore(att.desc.storeOp)),
             <<SubpassVar(s.executionStates[queue].subpass)>>))

\* noDsAttStoreOp
noDsAttStoreOp(s, sc, queue, att, readAtt) ==
    behaviorForData(behaviorForLayout(s, sc, queue, att), sc, queue, att, readAtt)

\* dsAttStoreOp, lines 412-426
dsAttStoreOp(s, sc, queue, dsAtt) ==
    AddBehavior(
        read(storeData(as(newBehavior(s, sc, queue), "storeDepthStencil"),
                       dsAtt,
                       isStore(dsAtt.desc.storeOp) \/ isStore(dsAtt.desc.stencilStoreOp)),
             <<SubpassVar(s.executionStates[queue].subpass)>>))

\* isStoreAtt, lines 428-435: pointer equality with a store attachment.
isStoreAtt(sp, att) ==
    \E i \in 1..Len(sp.storeAttachments) : sp.storeAttachments[i].id = att.id

\* lines 437-442: the resolve attachments, each with the colour attachment
\* at its index; an index past the colour attachments is out of range.
RECURSIVE resolveFrom(_, _, _, _, _)
resolveFrom(s, sc, queue, sp, i) ==
    IF i > Len(sp.resolveAttachments) \/ s.crashed THEN s
    ELSE IF ~isStoreAtt(sp, sp.resolveAttachments[i])
    THEN resolveFrom(s, sc, queue, sp, i + 1)
    ELSE IF i > Len(sp.colorAttachments) THEN Panic(s)
    ELSE resolveFrom(noDsAttStoreOp(s, sc, queue, sp.resolveAttachments[i],
                                    sp.colorAttachments[i]),
                     sc, queue, sp, i + 1)

\* lines 443-452: the colour or the input attachments.
RECURSIVE outputFrom(_, _, _, _, _, _)
outputFrom(s, sc, queue, sp, atts, i) ==
    IF i > Len(atts) \/ s.crashed THEN s
    ELSE IF ~isStoreAtt(sp, atts[i]) THEN outputFrom(s, sc, queue, sp, atts, i + 1)
    ELSE outputFrom(noDsAttStoreOp(s, sc, queue, atts[i], NilAtt),
                    sc, queue, sp, atts, i + 1)

\* lines 453-455
depthStencilOutput(s, sc, queue, sp) ==
    IF s.crashed \/ ~isStoreAtt(sp, sp.depthStencilAttachment) THEN s
    ELSE dsAttStoreOp(s, sc, queue, sp.depthStencilAttachment)

\* lines 456-461: the descriptor data the subpass modified.
RECURSIVE modifiedFrom(_, _, _, _, _)
modifiedFrom(s, sc, queue, sp, i) ==
    IF i > Len(sp.modifiedDescriptorData) \/ s.crashed THEN s
    ELSE modifiedFrom(
             AddBehavior(
                 read(modify(as(newBehavior(s, sc, queue), "modifiedDescriptorData"),
                             <<sp.modifiedDescriptorData[i]>>),
                      <<SubpassVar(s.executionStates[queue].subpass)>>)),
             sc, queue, sp, i + 1)

\* lines 437-461, for the subpass sp.
outputOf(s, sc, queue, sp) ==
    modifiedFrom(
        depthStencilOutput(
            outputFrom(
                outputFrom(resolveFrom(s, sc, queue, sp, 1),
                           sc, queue, sp, sp.colorAttachments, 1),
                sc, queue, sp, sp.inputAttachments, 1),
            sc, queue, sp),
        sc, queue, sp, 1)

\* queueExecutionState.emitSubpassOutput: its behaviours are added while the
\* behaviour of the command, s.cur, waits.
emitSubpassOutput(s, sc, queue) ==
    IF s.crashed THEN s
    ELSE IF ~hasSubpass(s, queue) THEN Panic(s)
    ELSE resume(outputOf(s, sc, queue, inSubpass(s, queue)), s.cur)

\* queueExecutionState.endSubpass
endSubpass(s, sc, queue) ==
    read(emitSubpassOutput(s, sc, queue),
         <<SubpassVar(s.executionStates[queue].subpass)>>)

\* line 612: qei.subpass.val++
subpassValInc(r, queue) ==
    IF r.crashed THEN r ELSE [r EXCEPT !.executionStates[queue].subpass.val = @ + 1]

\* queueExecutionState.nextSubpass
nextSubpass(s, sc, queue) ==
    startSubpass(subpassValInc(endSubpass(s, sc, queue), queue), queue)

\* queueExecutionState.endRenderPass
endRenderPass(s, sc, queue) == endSubpass(s, sc, queue)

\* newForwardPairedLabel, r being the state before: the new label is written.
newForwardPairedLabel(r) ==
    IF r.crashed THEN r
    ELSE [write(r, <<ForwardPairedLabel(r.nextAtt)>>) EXCEPT !.nextAtt = @ + 1]

\* line 2213: execInfo.renderPassBegin = newForwardPairedLabel(ctx, cbh)
setRenderPassBegin(r, queue) ==
    IF r.crashed THEN r
    ELSE [newForwardPairedLabel(r)
             EXCEPT !.executionStates[queue].renderPassBegin = ForwardPairedLabel(r.nextAtt)]

\* read, *forwardPairedLabel case: the behaviour joins the readers of the
\* label, which a nil label does not have.
readPaired(s, c) == IF c.k = "nil" THEN Panic(s) ELSE read(s, <<c>>)

\* The behave closure of VkCmdBeginRenderPass, lines 2211-2218; the
\* behaviour in the footprint is the one made alive.
behaveBeginRenderPass(s, sc, queue) ==
    AddBehavior(
        KeepAlive(
            setRenderPassBegin(
                beginRenderPass(as(newBehavior(s, sc, queue), "beginRenderPass"), queue,
                                s.cbcs[sc.cmd].captured.rp, s.cbcs[sc.cmd].captured.fb),
                queue)))

\* The behave closure of VkCmdNextSubpass, lines 2224-2231
behaveNextSubpass(s, sc, queue) ==
    AddBehavior(
        KeepAlive(nextSubpass(as(newBehavior(s, sc, queue), "nextSubpass"), sc, queue)))

\* The behave closure of VkCmdEndRenderPass, lines 2237-2245
behaveEndRenderPass(s, sc, queue) ==
    AddBehavior(
        KeepAlive(
            readPaired(
                endRenderPass(as(newBehavior(s, sc, queue), "endRenderPass"), sc, queue),
                s.executionStates[queue].renderPassBegin)))

\* cbc.behave = ... with the variables the closure captures.
setClosure(s, behave, captured) ==
    IF s.crashed THEN s
    ELSE IF s.cbc = 0 THEN Panic(s)
    ELSE [s EXCEPT !.cbcs[s.cbc].behave = behave, !.cbcs[s.cbc].captured = captured]

\* lines 2199-2201: the label is written when the command buffer is known.
writeRenderPassBegin(s, vkCb) ==
    IF s.crashed \/ vkCb \notin DOMAIN s.commandBuffers THEN s
    ELSE write(s, <<Label(s.commandBuffers[vkCb].renderPassBegin)>>)

\* lines 2210-2219: the closure is installed unless the command is nil.
recordBeginRenderPass(r, cmd) ==
    IF r.crashed \/ r.cbc = 0 THEN r
    ELSE setClosure(r, "beginRenderPass", [rp |-> cmd.rp, fb |-> cmd.fb])

\* case *VkCmdBeginRenderPass: cmd.rp and cmd.fb are the objects the state
\* of the collaborator has for the handles of the command.
DoCmdBeginRenderPass(s, cmd) ==
    recordBeginRenderPass(
        newCommand(
            readAttachmentsFrom(
                read(writeRenderPassBegin(
                         read(read(s, <<toVkHandle(cmd.rp.handle)>>),
                              <<toVkHandle(cmd.fb.handle)>>),
                         cmd.commandBuffer),
                     <<toVkHandle(cmd.fb.renderPass)>>),
                cmd.fb, 0),
            cmd.commandBuffer),
        cmd)

\* case *VkCmdNextSubpass
DoCmdNextSubpass(s, cmd) ==
    setClosure(newCommand(s, cmd.commandBuffer), "nextSubpass", <<>>)

\* lines 2234-2247, the command buffer having a shadow entry.
recordEndRenderPass(s, cmd) ==
    setClosure(
        newCommand(read(s, <<Label(s.commandBuffers[cmd.commandBuffer].renderPassBegin)>>),
                   cmd.commandBuffer),
        "endRenderPass", <<>>)

\* case *VkCmdEndRenderPass
DoCmdEndRenderPass(s, cmd) ==
    IF cmd.commandBuffer \in DOMAIN s.commandBuffers THEN recordEndRenderPass(s, cmd)
    ELSE s

-----------------------------------------------------------------------------
(* Copies and clears of images                                             *)
(* The image object of the collaborator is a record: extent, arrayLayers   *)
(* and mipLevels.  A region or a range is a record of its Vulkan fields;   *)
(* an aspect mask is the set of its bits, an offset or an extent a triple. *)

\* int32 differences converted to uint32, eight bits wide here.
U32(x) == x % 256

\* subresourceLayersFullyCoverImage
subresourceLayersFullyCoverImage(img, layers, offset, extent) ==
    IF offset # <<0, 0, 0>> THEN FALSE
    ELSE IF extent # img.extent THEN FALSE
    ELSE IF layers.baseArrayLayer # 0 THEN FALSE
    ELSE IF /\ layers.layerCount # img.arrayLayers
            /\ layers.layerCount # vkRemainingArrayLayers
    THEN FALSE
    ELSE IF layers.aspectMask = {"DEPTH", "STENCIL"} THEN TRUE
    ELSE layers.aspectMask = {"COLOR"}

\* subresourceRangeFullyCoverImage
subresourceRangeFullyCoverImage(img, rng) ==
    IF rng.baseArrayLayer # 0 \/ rng.baseMipLevel # 0 THEN FALSE
    ELSE IF \/ (/\ rng.layerCount # img.arrayLayers
                /\ rng.layerCount # vkRemainingArrayLayers)
            \/ (/\ rng.levelCount # img.mipLevels
                /\ rng.levelCount # vkRemainingMipLevels)
    THEN FALSE
    ELSE rng.aspectMask = {"DEPTH", "STENCIL"} \/ rng.aspectMask = {"COLOR"}

\* blitFullyCoverImage
blitFullyCoverImage(img, layers, offset1, offset2) ==
    IF offset1 = <<0, 0, 0>>
    THEN subresourceLayersFullyCoverImage(
             img, layers, offset1, [i \in 1..3 |-> U32(offset2[i] - offset1[i])])
    ELSE IF offset2 = <<0, 0, 0>>
    THEN subresourceLayersFullyCoverImage(
             img, layers, offset2, [i \in 1..3 |-> U32(offset1[i] - offset2[i])])
    ELSE FALSE

\* The behave closure recordReadsWritesModifies installs (lines 1403-1409).
behaveReadsWritesModifies(s, sc, queue) ==
    AddBehavior(
        modify(write(read(newBehavior(s, sc, queue), s.cbcs[sc.cmd].captured.reads),
                     s.cbcs[sc.cmd].captured.writes),
               s.cbcs[sc.cmd].captured.modifies))

\* FootprintBuilder.recordReadsWritesModifies
recordReadsWritesModifies(s, vkCb, reads, writes, modifies) ==
    setClosure(newCommand(s, vkCb), "readsWritesModifies",
               [reads |-> reads, writes |-> writes, modifies |-> modifies])

\* if overwritten { ...(src, dst, emptyDefUseVars) } else { ...(src,
\* emptyDefUseVars, dst) }
recordOverwrite(s, vkCb, src, dst, overwritten) ==
    IF s.crashed THEN s
    ELSE recordReadsWritesModifies(s, vkCb, src,
                                   IF overwritten THEN dst ELSE <<>>,
                                   IF overwritten THEN <<>> ELSE dst)

\* lines 2060-2064, 2099-2103, 2137-2141: some region covers the image.
regionsOverwrite(cmd) ==
    \E i \in DOMAIN cmd.regions :
        subresourceLayersFullyCoverImage(cmd.dstInfo, cmd.regions[i].subresource,
                                         cmd.regions[i].offset, cmd.regions[i].extent)

\* lines 2117-2122: some region of the blit covers the image.
blitsOverwrite(cmd) ==
    \E i \in DOMAIN cmd.regions :
        blitFullyCoverImage(cmd.dstInfo, cmd.regions[i].subresource,
                            cmd.regions[i].offsets[1], cmd.regions[i].offsets[2])

\* lines 2162-2167, 2179-2184: some range covers the image.
rangesOverwrite(cmd) ==
    \E i \in DOMAIN cmd.ranges : subresourceRangeFullyCoverImage(cmd.dstInfo, cmd.ranges[i])

\* The second call for data, r being the state after the first: dst is what
\* the first returned when the destination is asked for first.
copyBetween(q, first, cmd, overwritten, dstFirst) ==
    recordOverwrite(q, cmd.commandBuffer,
                    IF dstFirst THEN q.data ELSE first,
                    IF dstFirst THEN first ELSE q.data, overwritten)

copyFrom(r, cmd, overwritten, dstFirst) ==
    copyBetween(getImageData(r, IF dstFirst THEN cmd.srcImage ELSE cmd.dstImage),
                r.data, cmd, overwritten, dstFirst)

\* case *VkCmdCopyImage: cmd.dstInfo is the image object the collaborator
\* has for the destination.
DoCmdCopyImage(s, cmd) ==
    copyFrom(getImageData(s, cmd.dstImage), cmd, regionsOverwrite(cmd), TRUE)

\* case *VkCmdCopyBufferToImage
DoCmdCopyBufferToImage(s, cmd) ==
    copyFrom(getBufferData(s, cmd.srcBuffer, 0, vkWholeSize), cmd,
             regionsOverwrite(cmd), FALSE)

\* case *VkCmdBlitImage
DoCmdBlitImage(s, cmd) ==
    copyFrom(getImageData(s, cmd.srcImage), cmd, blitsOverwrite(cmd), FALSE)

\* case *VkCmdResolveImage
DoCmdResolveImage(s, cmd) ==
    copyFrom(getImageData(s, cmd.srcImage), cmd, regionsOverwrite(cmd), FALSE)

\* lines 2169-2175 and 2186-2192, r being the state after getImageData.
clearFrom(r, cmd) ==
    IF r.crashed THEN r
    ELSE recordReadsWritesModifies(r, cmd.commandBuffer, <<>>,
                                   IF rangesOverwrite(cmd) THEN r.data ELSE <<>>,
                                   IF rangesOverwrite(cmd) THEN <<>> ELSE r.data)

\* case *VkCmdClearColorImage
DoCmdClearColorImage(s, cmd) == clearFrom(getImageData(s, cmd.dstImage), cmd)

\* case *VkCmdClearDepthStencilImage
DoCmdClearDepthStencilImage(s, cmd) == clearFrom(getImageData(s, cmd.dstImage), cmd)

-----------------------------------------------------------------------------
(* Descriptor sets: VkAllocateDescriptorSets, VkUpdateDescriptorSets,      *)
(* VkCmdBindDescriptorSets, and their use by VkCmdDraw and VkCmdDispatch   *)

\* the i-th *descriptor object and the i-th *boundDescriptorSet object
DescriptorVar(i) == Var("descriptor", i, 0, 0)
BoundDescriptorSetVar(i) == Var("boundDescriptorSet", i, 0, 0)

\* newDescriptorSet: descriptors is the trie, keyed by <<binding, element>>.
newDescriptorSet ==
    [descriptors |-> EmptyMap, descriptorCounts |-> EmptyMap, dynamicDescriptorCount |-> 0]

\* vb.descriptorSets[vkSet]: 0 is the nil pointer of a lookup miss.
descriptorSetOf(s, vkSet) ==
    IF vkSet \in DOMAIN s.descriptorSets THEN s.descriptorSets[vkSet] ELSE 0

\* ds.descriptorCounts[bi]: zero on a lookup miss.
descriptorCount(s, ds, bi) ==
    IF bi \in DOMAIN s.dss[ds].descriptorCounts THEN s.dss[ds].descriptorCounts[bi] ELSE 0

\* descriptorSet.reserveDescriptor
reserveDescriptor(s, ds, bi) ==
    [s EXCEPT !.dss[ds].descriptorCounts = MapPut(@, bi, U64(descriptorCount(s, ds, bi) + 1))]

\* lines 1884-1886: one reserveDescriptor for each descriptor of the binding.
RECURSIVE reserveDescriptors(_, _, _, _)
reserveDescriptors(s, ds, bi, n) ==
    IF n = 0 THEN s ELSE reserveDescriptors(reserveDescriptor(s, ds, bi), ds, bi, n - 1)

\* lines 1883-1887: the bindings of the layout (the order of the visit does
\* not change the counts).
RECURSIVE reserveBindings(_, _, _, _)
reserveBindings(s, ds, bindings, todo) ==
    IF todo = {} \/ s.crashed THEN s
    ELSE reserveBindings(reserveDescriptors(s, ds, Min(todo), bindings[Min(todo)]),
                         ds, bindings, todo \ {Min(todo)})

\* line 1882: vb.descriptorSets[vkSet] = newDescriptorSet()
putDescriptorSet(r, vkSet) ==
    IF r.crashed THEN r
    ELSE [r EXCEPT !.dss = Append(@, newDescriptorSet),
                   !.descriptorSets = MapPut(@, vkSet, Len(r.dss) + 1)]

\* lines 1877-1887: one set of the command, info being the set, its layout
\* and the bindings the collaborator has for the layout (binding -> count).
allocateDescriptorSet(s, info) ==
    reserveBindings(
        putDescriptorSet(write(read(s, <<toVkHandle(info.layout)>>),
                               <<toVkHandle(info.set)>>),
                         info.set),
        Len(s.dss) + 1, info.bindings, DOMAIN info.bindings)

RECURSIVE allocateSetsFrom(_, _, _)
allocateSetsFrom(s, sets, i) ==
    IF i > Len(sets) \/ s.crashed THEN s
    ELSE allocateSetsFrom(allocateDescriptorSet(s, sets[i]), sets, i + 1)

\* case *VkAllocateDescriptorSets
DoAllocateDescriptorSets(s, cmd) == allocateSetsFrom(s, cmd.sets, 1)

isDynamic(ty) == ty \in {"STORAGE_BUFFER_DYNAMIC", "UNIFORM_BUFFER_DYNAMIC"}

\* A *descriptor: id is its identity, sampler the value of the *vkHandle.
Descriptor(ty, vkImg, sampler, vkBuf, boundOffset, rng) ==
    [id |-> 0, ty |-> ty, img |-> vkImg, sampler |-> sampler, buf |-> vkBuf,
     bufOffset |-> boundOffset, bufRng |-> rng]

hasDescriptor(s, ds, bi, di) == <<bi, di>> \in DOMAIN s.dss[ds].descriptors

\* setDescriptor, lines 850-860: a dynamic descriptor that gives way is
\* taken off the count.
forgetDescriptor(s, ds, bi, di) ==
    IF s.crashed THEN s
    ELSE IF hasDescriptor(s, ds, bi, di) /\ isDynamic(s.dss[ds].descriptors[<<bi, di>>].ty)
    THEN [s EXCEPT !.dss[ds].dynamicDescriptorCount = U64(@ - 1)]
    ELSE s

\* setDescriptor, lines 861-863: the new descriptor takes the slot and is
\* written.
putDescriptor(s, ds, bi, di, d) ==
    IF s.crashed THEN s
    ELSE write([s EXCEPT !.dss[ds].descriptors =
                             MapPut(@, <<bi, di>>, [d EXCEPT !.id = s.nextDescriptor]),
                         !.nextDescriptor = @ + 1],
               <<DescriptorVar(s.nextDescriptor)>>)

\* A count that every new descriptor joins, whatever its type.
countAnyDescriptor(s, ds, ty) ==
    IF s.crashed THEN s ELSE [s EXCEPT !.dss[ds].dynamicDescriptorCount = U64(@ + 1)]

\* setDescriptor, lines 864-867: a dynamic descriptor joins the count.
countDescriptor(s, ds, ty) ==
    IF s.crashed \/ ~isDynamic(ty) THEN s
    ELSE [s EXCEPT !.dss[ds].dynamicDescriptorCount = U64(@ + 1)]

\* A setDescriptor that counts the new descriptor without taking the one
\* that gives way off the count.
setUnforgotten(s, ds, bi, di, d) ==
    countDescriptor(putDescriptor(s, ds, bi, di, d), ds, d.ty)

\* descriptorSet.setDescriptor
setDescriptor(s, ds, bi, di, d) ==
    countDescriptor(putDescriptor(forgetDescriptor(s, ds, bi, di), ds, bi, di, d), ds, d.ty)

\* descriptorSet.getDescriptor: the descriptor of the slot is read when
\* there is one.
getDescriptor(s, ds, bi, di) ==
    IF s.crashed \/ ~hasDescriptor(s, ds, bi, di) THEN s
    ELSE read(s, <<DescriptorVar(s.dss[ds].descriptors[<<bi, di>>].id)>>)

\* A destination that never moves to the next binding.
stayInBinding(s, ds, binding, elm) == [binding |-> binding, elm |-> elm]

\* updateDstForOverflow, lines 934-939 (and each half of
\* updateDstAndSrcForOverflow, lines 1008-1017): the binding and the element
\* after the test of the element against the count of the binding.
updateForOverflow(s, ds, binding, elm) ==
    IF elm >= descriptorCount(s, ds, binding)
    THEN [binding |-> U64(binding + 1), elm |-> 0]
    ELSE [binding |-> binding, elm |-> elm]

ImageTypes ==
    {"SAMPLER", "COMBINED_IMAGE_SAMPLER", "SAMPLED_IMAGE", "STORAGE_IMAGE",
     "INPUT_ATTACHMENT"}
BufferTypes ==
    {"UNIFORM_BUFFER", "STORAGE_BUFFER", "STORAGE_BUFFER_DYNAMIC", "UNIFORM_BUFFER_DYNAMIC"}
TexelBufferTypes == {"UNIFORM_TEXEL_BUFFER", "STORAGE_TEXEL_BUFFER"}

\* lines 950-954: the view is read unless the type is SAMPLER; info.image is
\* the image the collaborator has for the view.
readImageView(s, ty, info) ==
    IF s.crashed \/ ty = "SAMPLER" THEN s ELSE read(s, <<toVkHandle(info.imageView)>>)
imageOfView(s, ty, info) ==
    IF ty # "SAMPLER" /\ read(s, <<toVkHandle(info.imageView)>>).ret THEN info.image ELSE 0

\* lines 955-959: the sampler is read for SAMPLER and COMBINED_IMAGE_SAMPLER.
readSampler(s, ty, info) ==
    IF s.crashed \/ ty \notin {"SAMPLER", "COMBINED_IMAGE_SAMPLER"} THEN s
    ELSE read(s, <<toVkHandle(info.sampler)>>)
samplerOf(s, ty, info) ==
    IF ty \in {"SAMPLER", "COMBINED_IMAGE_SAMPLER"}
       /\ read(s, <<toVkHandle(info.sampler)>>).ret
    THEN info.sampler ELSE 0

\* lines 946-963: one element of pImageInfo, written to the slot at.
writeImageInfo(s, ds, ty, info, at) ==
    setDescriptor(readSampler(readImageView(s, ty, info), ty, info), ds, at.binding, at.elm,
                  Descriptor(ty, imageOfView(s, ty, info), samplerOf(s, ty, info), 0, 0, 0))

\* lines 966-974 and 977-985: one element of pBufferInfo.
writeBufferInfo(s, ds, ty, info, at) ==
    setDescriptor(
        getSubBindingList(read(s, <<toVkHandle(info.buffer)>>), buffersOf(s, info.buffer),
                          info.offset, info.range),
        ds, at.binding, at.elm, Descriptor(ty, 0, 0, info.buffer, info.offset, info.range))

\* lines 988-996: one element of pTexelBufferView; info has the buffer, the
\* offset and the range the collaborator has for the view.
writeTexelBufferView(s, ds, ty, info, at) ==
    setDescriptor(read(s, <<toVkHandle(info.view)>>), ds, at.binding, at.elm,
                  Descriptor(ty, 0, 0, info.buffer, info.offset, info.range))

\* One descriptor of a write, after the carry.
writeInfo(s, ds, w, i, at) ==
    CASE w.descriptorType \in ImageTypes ->
             writeImageInfo(s, ds, w.descriptorType, w.imageInfo[i], at)
      [] w.descriptorType \in BufferTypes ->
             writeBufferInfo(s, ds, w.descriptorType, w.bufferInfo[i], at)
      [] w.descriptorType \in TexelBufferTypes ->
             writeTexelBufferView(s, ds, w.descriptorType, w.texelBufferView[i], at)
      [] OTHER -> s

\* The loops of writeDescriptors: the carry, the descriptor, dstElm++.
RECURSIVE writeInfosFrom(_, _, _, _, _, _)
writeInfosFrom(s, ds, w, i, dstBinding, dstElm) ==
    IF i > w.descriptorCount \/ s.crashed THEN s
    ELSE writeInfosFrom(
             writeInfo(s, ds, w, i, updateForOverflow(s, ds, dstBinding, dstElm)),
             ds, w, i + 1,
             updateForOverflow(s, ds, dstBinding, dstElm).binding,
             U64(updateForOverflow(s, ds, dstBinding, dstElm).elm + 1))

\* descriptorSet.writeDescriptors: a nil set is dereferenced by the carry of
\* the first descriptor.
writeDescriptors(s, ds, w) ==
    IF s.crashed \/ w.descriptorCount = 0
       \/ w.descriptorType \notin ImageTypes \cup BufferTypes \cup TexelBufferTypes
    THEN s
    ELSE IF ds = 0 THEN Panic(s)
    ELSE writeInfosFrom(s, ds, w, 1, w.dstBinding, w.dstArrayElement)

\* lines 1020-1024: the descriptor of the source slot, when there is one, is
\* read and set at the destination slot.
copyDescriptor(s, ds, srcDs, dst, src) ==
    IF s.crashed \/ ~hasDescriptor(s, srcDs, src.binding, src.elm) THEN s
    ELSE setDescriptor(getDescriptor(s, srcDs, src.binding, src.elm), ds,
                       dst.binding, dst.elm,
                       s.dss[srcDs].descriptors[<<src.binding, src.elm>>])

RECURSIVE copyFromSlot(_, _, _, _, _, _, _, _, _)
copyFromSlot(s, ds, srcDs, count, i, dstBinding, dstElm, srcBinding, srcElm) ==
    IF i >= count \/ s.crashed THEN s
    ELSE copyFromSlot(
             copyDescriptor(s, ds, srcDs, updateForOverflow(s, ds, dstBinding, dstElm),
                            updateForOverflow(s, srcDs, srcBinding, srcElm)),
             ds, srcDs, count, i + 1,
             updateForOverflow(s, ds, dstBinding, dstElm).binding,
             U64(updateForOverflow(s, ds, dstBinding, dstElm).elm + 1),
             updateForOverflow(s, srcDs, srcBinding, srcElm).binding,
             U64(updateForOverflow(s, srcDs, srcBinding, srcElm).elm + 1))

\* descriptorSet.copyDescriptors: a nil set is dereferenced by the carry of
\* the first descriptor.
copyDescriptors(s, ds, srcDs, copy) ==
    IF s.crashed \/ copy.descriptorCount = 0 THEN s
    ELSE IF ds = 0 \/ srcDs = 0 THEN Panic(s)
    ELSE copyFromSlot(s, ds, srcDs, copy.descriptorCount, 0, copy.dstBinding,
                      copy.dstArrayElement, copy.srcBinding, copy.srcArrayElement)

\* lines 1892-1897
RECURSIVE writesFrom(_, _, _)
writesFrom(s, ws, i) ==
    IF i > Len(ws) \/ s.crashed THEN s
    ELSE writesFrom(writeDescriptors(read(s, <<toVkHandle(ws[i].dstSet)>>),
                                     descriptorSetOf(s, ws[i].dstSet), ws[i]),
                    ws, i + 1)

\* lines 1901-1907
RECURSIVE copiesFrom(_, _, _)
copiesFrom(s, cs, i) ==
    IF i > Len(cs) \/ s.crashed THEN s
    ELSE copiesFrom(copyDescriptors(read(read(s, <<toVkHandle(cs[i].srcSet)>>),
                                         <<toVkHandle(cs[i].dstSet)>>),
                                    descriptorSetOf(s, cs[i].dstSet),
                                    descriptorSetOf(s, cs[i].srcSet), cs[i]),
                    cs, i + 1)

\* case *VkUpdateDescriptorSets
DoUpdateDescriptorSets(s, cmd) == copiesFrom(writesFrom(s, cmd.writes, 1), cmd.copies, 1)

\* newBoundDescriptorSet: the dynamic offsets are as many as the dynamic
\* descriptors the set has now, zero where the command gave none; the new
\* object is written.
newBoundDescriptorSet(s, ds, dynamicOffsets) ==
    IF s.crashed THEN s
    ELSE IF ds = 0 THEN Panic(s)
    ELSE write([s EXCEPT !.nextDescriptor = @ + 1,
                         !.bds = [id |-> s.nextDescriptor, descriptorSet |-> ds,
                                  dynamicOffsets |->
                                      [i \in 1..s.dss[ds].dynamicDescriptorCount |->
                                          IF i <= Len(dynamicOffsets)
                                          THEN dynamicOffsets[i] ELSE 0]]],
               <<BoundDescriptorSetVar(s.nextDescriptor)>>)

\* execInfo.currentCmdBufState.descriptorSets[set] = bds, r.bds being the
\* bound set newBoundDescriptorSet returned.
bindDescriptorSet(r, queue, set) ==
    IF r.crashed THEN r
    ELSE CASE r.executionStates[queue].currentCmdBufState = "primary" ->
                 [r EXCEPT !.executionStates[queue].primaryCmdBufState.descriptorSets =
                               MapPut(@, set, r.bds)]
           [] r.executionStates[queue].currentCmdBufState = "secondary" ->
                 [r EXCEPT !.executionStates[queue].secondaryCmdBufState.descriptorSets =
                               MapPut(@, set, r.bds)]
           [] OTHER -> Panic(r)

\* lines 2306-2309: the sets of the command, bound from firstSet on.
RECURSIVE bindFrom(_, _, _, _)
bindFrom(s, queue, captured, i) ==
    IF i > Len(captured.dss) \/ s.crashed THEN s
    ELSE bindFrom(bindDescriptorSet(
                      newBoundDescriptorSet(s, captured.dss[i], captured.dOffsets),
                      queue, U32(captured.firstSet + i - 1)),
                  queue, captured, i + 1)

\* The behave closure of VkCmdBindDescriptorSets, lines 2303-2311
behaveBindDescriptorSets(s, sc, queue) ==
    AddBehavior(bindFrom(newBehavior(s, sc, queue), queue, s.cbcs[sc.cmd].captured, 1))

\* lines 2293-2296: the handle of each set is read.
RECURSIVE readSetsFrom(_, _, _)
readSetsFrom(s, sets, i) ==
    IF i > Len(sets) \/ s.crashed THEN s
    ELSE readSetsFrom(read(s, <<toVkHandle(sets[i])>>), sets, i + 1)

\* case *VkCmdBindDescriptorSets: the closure captures the set objects the
\* handles have now, the first set and the dynamic offsets.
DoCmdBindDescriptorSets(s, cmd) ==
    setClosure(
        newCommand(readSetsFrom(read(s, <<toVkHandle(cmd.layout)>>), cmd.descriptorSets, 1),
                   cmd.commandBuffer),
        "bindDescriptorSets",
        [dss |-> [i \in 1..Len(cmd.descriptorSets) |->
                     descriptorSetOf(s, cmd.descriptorSets[i])],
         firstSet |-> cmd.firstSet, dOffsets |-> cmd.dynamicOffsets])

\* useDescriptors, lines 878-918: the types whose data is an image's, the
\* types whose data is modified, and the descriptors that touch data: not a
\* sampler, and a dynamic buffer only while there are dynamic offsets left.
ImageDataTypes ==
    {"STORAGE_IMAGE", "COMBINED_IMAGE_SAMPLER", "SAMPLED_IMAGE", "INPUT_ATTACHMENT"}
BufferDataTypes ==
    {"STORAGE_BUFFER", "STORAGE_TEXEL_BUFFER", "UNIFORM_BUFFER", "UNIFORM_TEXEL_BUFFER"}
StorageTypes ==
    {"STORAGE_IMAGE", "STORAGE_BUFFER", "STORAGE_TEXEL_BUFFER", "STORAGE_BUFFER_DYNAMIC"}
isUsed(s, d, offsets) ==
    \/ d.ty \in ImageDataTypes \cup BufferDataTypes
    \/ isDynamic(d.ty) /\ s.doi < Len(offsets)

\* doi++, after the data of a dynamic descriptor
nextOffset(r, d) ==
    IF r.crashed \/ ~isDynamic(d.ty) THEN r ELSE [r EXCEPT !.doi = @ + 1]

\* the data of the descriptor: of its image, or of the range of its buffer,
\* which starts at the next dynamic offset for a dynamic descriptor (lines
\* 898-900 and 911-913)
descriptorData(s, d, offsets) ==
    IF d.ty \in ImageDataTypes THEN getImageData(s, d.img)
    ELSE nextOffset(
             getBufferData(s, d.buf,
                           IF isDynamic(d.ty) THEN U64(offsets[s.doi + 1] + d.bufOffset)
                           ELSE d.bufOffset,
                           d.bufRng),
             d)

\* read(ctx, bh, data...), or modify(ctx, bh, data...) and modified =
\* append(modified, data...), the data being what the call before returned.
usedAs(r, how) ==
    IF r.crashed THEN r
    ELSE [emitAs(r, r.data, how)
            EXCEPT !.modified = IF how = "modify" THEN @ \o r.data ELSE @]

\* useDescriptors, lines 878-918: the switch on the type of the descriptor.
useDescriptor(s, d, offsets) ==
    IF s.crashed \/ ~isUsed(s, d, offsets) THEN s
    ELSE usedAs(descriptorData(s, d, offsets),
                IF d.ty \in StorageTypes THEN "modify" ELSE "read")

\* lines 876-878: the descriptor of the slot, when there is one, is read,
\* its sampler is read, and it is used.
useSlot(s, ds, binding, di, offsets) ==
    IF s.crashed \/ ~hasDescriptor(s, ds, binding, di) THEN s
    ELSE useDescriptor(
             read(getDescriptor(s, ds, binding, di),
                  <<toVkHandle(s.dss[ds].descriptors[<<binding, di>>].sampler)>>),
             s.dss[ds].descriptors[<<binding, di>>], offsets)

\* line 875: the descriptors of one binding, in the order of the elements.
RECURSIVE useBinding(_, _, _, _, _)
useBinding(s, ds, binding, di, offsets) ==
    IF di >= descriptorCount(s, ds, binding) \/ s.crashed THEN s
    ELSE useBinding(useSlot(s, ds, binding, di, offsets), ds, binding, di + 1, offsets)

\* The keys of a map in the order a range statement visits them: the Go
\* run time chooses the order of the visit, and s.order is the order
\* chosen for this call.
Visited(s, keys) == SelectSeq(s.order, LAMBDA k : k \in keys)

\* line 874: for binding, count := range ds.descriptorCounts
RECURSIVE useBindingsFrom(_, _, _, _, _)
useBindingsFrom(s, ds, bindings, i, offsets) ==
    IF i > Len(bindings) \/ s.crashed THEN s
    ELSE useBindingsFrom(useBinding(s, ds, bindings[i], 0, offsets), ds, bindings, i + 1,
                         offsets)

\* descriptorSet.useDescriptors: s.modified grows by the data modified.
useDescriptors(s, ds, offsets) ==
    IF s.crashed THEN s
    ELSE useBindingsFrom([s EXCEPT !.doi = 0], ds,
                         Visited(s, DOMAIN s.dss[ds].descriptorCounts), 1, offsets)

\* lines 1426-1430: the bound sets of the command buffer state.
RECURSIVE useBoundFrom(_, _, _, _)
useBoundFrom(s, bound, sets, i) ==
    IF i > Len(sets) \/ s.crashed THEN s
    ELSE useBoundFrom(
             useDescriptors(read(s, <<BoundDescriptorSetVar(bound[sets[i]].id)>>),
                            bound[sets[i]].descriptorSet, bound[sets[i]].dynamicOffsets),
             bound, sets, i + 1)

\* FootprintBuilder.useBoundDescriptorSets: s.modified is the list returned.
useBoundDescriptorSets(s, queue) ==
    IF s.crashed THEN s
    ELSE IF currentCmdBufState(s, queue) = NilCmdBufState THEN Panic(s)
    ELSE useBoundFrom([s EXCEPT !.modified = <<>>],
                      currentCmdBufState(s, queue).descriptorSets,
                      Visited(s, DOMAIN currentCmdBufState(s, queue).descriptorSets), 1)

\* modify(ctx, cbh, modified...)
modifyModified(r) == IF r.crashed THEN r ELSE modify(r, r.modified)

\* The behave closure of VkCmdDispatch, lines 2394-2399
behaveDispatch(s, sc, queue) ==
    IF currentCmdBufState(s, queue) = NilCmdBufState THEN Panic(s)
    ELSE AddBehavior(
             modifyModified(
                 useBoundDescriptorSets(
                     read(as(newBehavior(s, sc, queue), "dispatch"),
                          <<Label(currentCmdBufState(s, queue).pipeline)>>),
                     queue)))

\* case *VkCmdDispatch
DoCmdDispatch(s, cmd) == setClosure(newCommand(s, cmd.commandBuffer), "dispatch", <<>>)

\* draw, lines 1446-1449: the data the descriptors modified joins the
\* subpass.
appendModified(r, queue) ==
    IF r.crashed THEN r
    ELSE [r EXCEPT !.executionStates[queue].subpasses[
                        r.executionStates[queue].subpass.val + 1].modifiedDescriptorData =
                       @ \o r.modified]

\* draw, lines 1453-1455: the data of the input attachments is read.
RECURSIVE readInputsFrom(_, _, _)
readInputsFrom(s, atts, i) ==
    IF i > Len(atts) \/ s.crashed THEN s
    ELSE readInputsFrom(read(s, atts[i].data), atts, i + 1)

\* draw, lines 1456-1458: the data of the colour attachments is modified.
RECURSIVE modifyColorsFrom(_, _, _)
modifyColorsFrom(s, atts, i) ==
    IF i > Len(atts) \/ s.crashed THEN s
    ELSE modifyColorsFrom(modify(s, atts[i].data), atts, i + 1)

\* draw, lines 1459-1462: the data of the depth-stencil attachment.
modifyDepthStencil(s, sp) ==
    IF s.crashed \/ sp.depthStencilAttachment = NilAtt THEN s
    ELSE modify(s, sp.depthStencilAttachment.data)

\* VkIndexType.size(): the bytes of an index.
indexSize(ty) == IF ty = "UINT16" THEN 2 ELSE IF ty = "UINT32" THEN 4 ELSE 0

\* The closure of VkCmdBindIndexBuffer, lines 2275-2276.
setIndexBuffer(r, queue, captured) ==
    IF r.crashed THEN r
    ELSE CASE r.executionStates[queue].currentCmdBufState = "primary" ->
                 [r EXCEPT !.executionStates[queue].primaryCmdBufState =
                               [@ EXCEPT !.indexBufferResBindings = captured.subBindings,
                                         !.indexBufferIsNil = FALSE,
                                         !.indexType = captured.indexType]]
           [] r.executionStates[queue].currentCmdBufState = "secondary" ->
                 [r EXCEPT !.executionStates[queue].secondaryCmdBufState =
                               [@ EXCEPT !.indexBufferResBindings = captured.subBindings,
                                         !.indexBufferIsNil = FALSE,
                                         !.indexType = captured.indexType]]
           [] OTHER -> Panic(r)

\* The behave closure of VkCmdBindIndexBuffer, lines 2272-2278
behaveBindIndexBuffer(s, sc, queue) ==
    AddBehavior(setIndexBuffer(as(newBehavior(s, sc, queue), "bindIndexBuffer"), queue,
                               s.cbcs[sc.cmd].captured))

\* lines 2271-2278: the closure captures the sub-bindings getSubBindingList
\* returned (r.sub) and the index type.
indexClosure(r, cmd) ==
    setClosure(r, "bindIndexBuffer", [subBindings |-> r.sub, indexType |-> cmd.indexType])

\* case *VkCmdBindIndexBuffer
DoCmdBindIndexBuffer(s, cmd) ==
    indexClosure(newCommand(getSubBindingList(s, buffersOf(s, cmd.buffer), cmd.offset,
                                              vkWholeSize),
                            cmd.commandBuffer),
                 cmd)

\* readBoundIndexBuffer for a VkCmdDrawIndexed: the index types of the traces
\* have a size, so that nothing is logged.
readBoundIndexBuffer(s, queue, cmd) ==
    IF s.crashed THEN s
    ELSE IF currentCmdBufState(s, queue) = NilCmdBufState THEN Panic(s)
    ELSE readData(
             getBoundData(
                 s, currentCmdBufState(s, queue).indexBufferResBindings,
                 U64(cmd.firstIndex * indexSize(currentCmdBufState(s, queue).indexType)),
                 U64(cmd.indexCount * indexSize(currentCmdBufState(s, queue).indexType))))

\* draw, lines 1447-1450: the data of the whole bound index buffer is read.
readIndexBuffer(r, queue) ==
    IF r.crashed \/ currentCmdBufState(r, queue).indexBufferIsNil THEN r
    ELSE readData(getBoundData(r, currentCmdBufState(r, queue).indexBufferResBindings,
                               0, vkWholeSize))

\* FootprintBuilder.draw: the subpass index is dereferenced after the three
\* reads; no vertex buffer is bound in the traces, so that
\* vertexBufferResBindings is empty.
draw(s, queue) ==
    IF s.crashed THEN s
    ELSE IF currentCmdBufState(s, queue) = NilCmdBufState \/ ~hasSubpass(s, queue)
    THEN Panic(s)
    ELSE modifyDepthStencil(
             modifyColorsFrom(
                 readInputsFrom(
                     readIndexBuffer(
                         appendModified(
                             useBoundDescriptorSets(
                                 read(read(read(s, <<SubpassVar(s.executionStates[queue].subpass)>>),
                                           <<Label(currentCmdBufState(s, queue).pipeline)>>),
                                      <<Label(currentCmdBufState(s, queue).dynamicState)>>),
                                 queue),
                             queue),
                         queue),
                     inSubpass(s, queue).inputAttachments, 1),
                 inSubpass(s, queue).colorAttachments, 1),
             inSubpass(s, queue))

\* The behave closure of VkCmdDraw, lines 2319-2323
behaveDraw(s, sc, queue) ==
    AddBehavior(draw(as(newBehavior(s, sc, queue), "draw"), queue))

\* lines 2316-2324, the command buffer having a shadow entry.
recordDraw(s, cmd) ==
    setClosure(
        newCommand(read(s, <<Label(s.commandBuffers[cmd.commandBuffer].renderPassBegin)>>),
                   cmd.commandBuffer),
        "draw", <<>>)

\* case *VkCmdDraw
DoCmdDraw(s, cmd) ==
    IF cmd.commandBuffer \in DOMAIN s.commandBuffers THEN recordDraw(s, cmd) ELSE s

\* The behave closure of VkCmdDrawIndexed, lines 2332-2337
behaveDrawIndexed(s, sc, queue) ==
    AddBehavior(draw(readBoundIndexBuffer(as(newBehavior(s, sc, queue), "drawIndexed"),
                                          queue, s.cbcs[sc.cmd].captured),
                     queue))

\* lines 2329-2338, the command buffer having a shadow entry.
recordDrawIndexed(s, cmd) ==
    setClosure(
        newCommand(read(s, <<Label(s.commandBuffers[cmd.commandBuffer].renderPassBegin)>>),
                   cmd.commandBuffer),
        "drawIndexed", [firstIndex |-> cmd.firstIndex, indexCount |-> cmd.indexCount])

\* case *VkCmdDrawIndexed
DoCmdDrawIndexed(s, cmd) ==
    IF cmd.commandBuffer \in DOMAIN s.commandBuffers THEN recordDrawIndexed(s, cmd) ELSE s

-----------------------------------------------------------------------------
(* rollOutExecuted *)

\* submittedCommand.runCommand: the behave closure of the recorded command;
\* ran keeps the commands whose closure was invoked.
runCommand(s, sc, queue) ==
    IF s.crashed THEN s
    ELSE CASE s.cbcs[sc.cmd].behave = "modifyDynamicState" ->
                 modifyDynamicState([s EXCEPT !.ran = Append(@, sc)], sc, queue)
           [] s.cbcs[sc.cmd].behave = "nothing" -> [s EXCEPT !.ran = Append(@, sc)]
           [] s.cbcs[sc.cmd].behave = "readsWritesModifies" ->
                 behaveReadsWritesModifies([s EXCEPT !.ran = Append(@, sc)], sc, queue)
           [] s.cbcs[sc.cmd].behave = "bindDescriptorSets" ->
                 behaveBindDescriptorSets([s EXCEPT !.ran = Append(@, sc)], sc, queue)
           [] s.cbcs[sc.cmd].behave = "dispatch" ->
                 behaveDispatch([s EXCEPT !.ran = Append(@, sc)], sc, queue)
           [] s.cbcs[sc.cmd].behave = "draw" ->
                 behaveDraw([s EXCEPT !.ran = Append(@, sc)], sc, queue)
           [] s.cbcs[sc.cmd].behave = "bindIndexBuffer" ->
                 behaveBindIndexBuffer([s EXCEPT !.ran = Append(@, sc)], sc, queue)
           [] s.cbcs[sc.cmd].behave = "drawIndexed" ->
                 behaveDrawIndexed([s EXCEPT !.ran = Append(@, sc)], sc, queue)
           [] s.cbcs[sc.cmd].behave = "beginRenderPass" ->
                 behaveBeginRenderPass([s EXCEPT !.ran = Append(@, sc)], sc, queue)
           [] s.cbcs[sc.cmd].behave = "nextSubpass" ->
                 behaveNextSubpass([s EXCEPT !.ran = Append(@, sc)], sc, queue)
           [] s.cbcs[sc.cmd].behave = "endRenderPass" ->
                 behaveEndRenderPass([s EXCEPT !.ran = Append(@, sc)], sc, queue)
           [] OTHER -> Panic(s)

\* A wait that leaves the signal label of the semaphore alone.
keepSemaphoreSignal(r, sp) == r

\* lines 1353-1355, r being the state after the read of the semaphore handle.
modifySemaphoreSignal(r, sp) ==
    IF r.crashed \/ ~r.ret THEN r ELSE modify(r, <<semaphoreSignal(r, sp)>>)

RECURSIVE beganWaits(_, _, _)
beganWaits(t, sps, i) ==
    IF i > Len(sps) \/ t.crashed THEN t
    ELSE beganWaits(modifySemaphoreSignal(read(t, <<toVkHandle(sps[i])>>), sps[i]),
                    sps, i + 1)

\* A submit whose began flag is never set.
leaveBegan(s, submitID) == s

\* line 1359: submitinfo.began = true
setBegan(s, submitID) ==
    IF s.crashed THEN s ELSE [s EXCEPT !.submitInfos[submitID].began = TRUE]

\* rollOutExecuted, lines 1350-1360: the first executed subcommand of a submit.
rollOutBegan(s, submitID) ==
    IF s.submitInfos[submitID].began THEN s
    ELSE setBegan(AddBehavior(beganWaits(NewBehavior(s, <<submitID>>, "began"),
                                         s.submitInfos[submitID].waitSemaphores, 1)),
                  submitID)

\* lines 1385-1387, r being the state after the read of the semaphore handle.
writeSemaphoreSignal(r, sp) ==
    IF r.crashed \/ ~r.ret THEN r ELSE write(r, <<semaphoreSignal(r, sp)>>)

RECURSIVE doneSignals(_, _, _)
doneSignals(t, sps, i) ==
    IF i > Len(sps) \/ t.crashed THEN t
    ELSE doneSignals(writeSemaphoreSignal(read(t, <<toVkHandle(sps[i])>>), sps[i]),
                     sps, i + 1)

\* A terminal behaviour that leaves the fence alone.
skipFenceSignal(r, f) == r

\* lines 1389-1391, r being the state after the read of the fence handle;
\* the signal label of a fence the map does not hold is a nil dereference.
writeFenceSignal(r, f) ==
    IF r.crashed \/ ~r.ret THEN r
    ELSE IF f \notin DOMAIN r.fences THEN Panic(r)
    ELSE write(r, <<Label(r.fences[f].signal)>>)

\* rollOutExecuted, lines 1378-1393: after the last pending command.
rollOutDone(s, submitID) ==
    IF s.crashed \/ Len(s.submitInfos[submitID].pendingCommands) # 0 THEN s
    ELSE AddBehavior(
             writeFenceSignal(
                 read(doneSignals(
                          write(read(NewBehavior(s, <<submitID>>, "done"),
                                     <<Label(s.submitInfos[submitID].queued)>>),
                                <<Label(s.submitInfos[submitID].done)>>),
                          s.submitInfos[submitID].signalSemaphores, 1),
                      <<toVkHandle(s.submitInfos[submitID].signalFence)>>),
                 s.submitInfos[submitID].signalFence))

\* A rollout that leaves the front submitted command in place.
keepFront(s, submitID) == s

\* rollOutExecuted, lines 1373-1375: remove the front submitted command.
popFront(s, submitID) ==
    IF s.crashed THEN s
    ELSE [s EXCEPT !.submitInfos[submitID].pendingCommands = Tail(@)]

\* rollOutExecuted, lines 1368-1371: the log.E line and the return; at is the
\* command being built and ranBefore the number of closures invoked so far.
logDivergence(s, executedFCI, submittedCmd) ==
    [s EXCEPT !.logs = Append(@, [executed |-> executedFCI,
                                  submitted |-> submittedCmd.id,
                                  at |-> s.nextId,
                                  ranBefore |-> Len(s.ran)]),
              !.stop = TRUE]

\* lines 1363-1366: the head is run on the execution state of its queue.
runHead(s, executedFCI, submittedCmd, queue) ==
    runCommand(
        updateCurrentCommand(
            [s EXCEPT !.executionStates[queue].currentSubmitInfo = executedFCI[1]],
            queue, executedFCI),
        submittedCmd, queue)

\* rollOutExecuted, lines 1361-1393, s being the state after the began
\* behaviour: the head of an empty pending list is an index out of range.
rollOutHead(s, executedFCI) ==
    IF s.crashed THEN s
    ELSE IF Len(s.submitInfos[executedFCI[1]].pendingCommands) = 0 THEN Panic(s)
    ELSE IF ~Equals(executedFCI, s.submitInfos[executedFCI[1]].pendingCommands[1].id)
    THEN logDivergence(s, executedFCI, s.submitInfos[executedFCI[1]].pendingCommands[1])
    ELSE rollOutDone(
             popFront(runHead(s, executedFCI,
                              s.submitInfos[executedFCI[1]].pendingCommands[1],
                              s.submitInfos[executedFCI[1]].queue),
                      executedFCI[1]),
             executedFCI[1])

\* rollOutExecuted, one round of the loop; the submit info of an unknown
\* submit is a nil pointer.
rollOutOne(s, executedFCI) ==
    IF executedFCI[1] \notin DOMAIN s.submitInfos THEN Panic(s)
    ELSE rollOutHead(rollOutBegan(s, executedFCI[1]), executedFCI)

RECURSIVE rollOutFrom(_, _, _)
rollOutFrom(s, executedCommands, i) ==
    IF i > Len(executedCommands) \/ s.crashed \/ s.stop THEN s
    ELSE rollOutFrom(rollOutOne(s, executedCommands[i]), executedCommands, i + 1)

\* FootprintBuilder.rollOutExecuted
rollOutExecuted(s, executedCommands) ==
    rollOutFrom([s EXCEPT !.stop = FALSE], executedCommands, 1)

-----------------------------------------------------------------------------
(* BuildFootprint *)

\* A default case that leaves the behaviour as it is.
dropUnhandled(s, cmd) == s

\* default: the warning, then bh.Alive = true
keepUnhandled(s, cmd) == KeepAlive(s)

\* The main switch.
Dispatch(s, cmd) ==
    CASE cmd.type = "VkAllocateMemory" -> DoAllocateMemory(s, cmd)
      [] cmd.type = "VkFlushMappedMemoryRanges" -> DoFlushMappedMemoryRanges(s, cmd)
      [] cmd.type = "VkInvalidateMappedMemoryRanges" -> DoInvalidateMappedMemoryRanges(s, cmd)
      [] cmd.type = "VkAllocateCommandBuffers" -> DoAllocateCommandBuffers(s, cmd)
      [] cmd.type = "VkCmdSetLineWidth" -> DoCmdSetLineWidth(s, cmd)
      [] cmd.type = "VkCmdExecuteCommands" -> DoCmdExecuteCommands(s, cmd)
      [] cmd.type = "VkQueueSubmit" -> DoQueueSubmit(s, cmd)
      [] cmd.type = "VkSetEvent" -> DoSetEvent(s, cmd)
      [] cmd.type = "VkCreateSemaphore" -> DoCreateSemaphore(s, cmd)
      [] cmd.type = "VkCreateFence" -> DoCreateFence(s, cmd)
      [] cmd.type = "VkCreateEvent" -> DoCreateEvent(s, cmd)
      [] cmd.type = "VkCreateImage" -> DoCreateImage(s, cmd)
      [] cmd.type = "VkCreateBuffer" -> DoCreateBuffer(s, cmd)
      [] cmd.type = "VkBindImageMemory" -> DoBindImageMemory(s, cmd)
      [] cmd.type = "VkBindBufferMemory" -> DoBindBufferMemory(s, cmd)
      [] cmd.type = "VkGetSwapchainImagesKHR" -> DoGetSwapchainImagesKHR(s, cmd)
      [] cmd.type = "VkQueueBindSparse" -> DoQueueBindSparse(s, cmd)
      [] cmd.type = "VkCreateBufferView" -> DoCreateBufferView(s, cmd)
      [] cmd.type = "VkResetCommandBuffer" -> DoResetCommandBuffer(s, cmd)
      [] cmd.type = "VkBeginCommandBuffer" -> DoBeginCommandBuffer(s, cmd)
      [] cmd.type = "VkFreeMemory" -> DoFreeMemory(s, cmd)
      [] cmd.type = "VkDestroyImageView" -> DoDestroyImageView(s, cmd)
      [] cmd.type = "VkDestroyImage" -> DoDestroyImage(s, cmd)
      [] cmd.type = "VkDestroyBuffer" -> DoDestroyBuffer(s, cmd)
      [] cmd.type = "VkDestroySemaphore" -> DoDestroySemaphore(s, cmd)
      [] cmd.type = "VkDestroyEvent" -> DoDestroyEvent(s, cmd)
      [] cmd.type = "VkDestroyFence" -> DoDestroyFence(s, cmd)
      [] cmd.type = "VkFreeCommandBuffers" -> DoFreeCommandBuffers(s, cmd)
      [] cmd.type = "VkGetEventStatus" -> DoGetEventStatus(s, cmd)
      [] cmd.type = "VkGetFenceStatus" -> DoGetFenceStatus(s, cmd)
      [] cmd.type = "VkWaitForFences" -> DoWaitForFences(s, cmd)
      [] cmd.type = "VkQueueWaitIdle" -> DoQueueWaitIdle(s, cmd)
      [] cmd.type = "VkDeviceWaitIdle" -> DoDeviceWaitIdle(s, cmd)
      [] cmd.type = "VkCreateSwapchainKHR" -> DoCreateSwapchainKHR(s, cmd)
      [] cmd.type = "VkAcquireNextImageKHR" -> DoAcquireNextImageKHR(s, cmd)
      [] cmd.type = "VkQueuePresentKHR" -> DoQueuePresentKHR(s, cmd)
      [] cmd.type = "VkMapMemory" -> DoMapMemory(s, cmd)
      [] cmd.type = "VkUnmapMemory" -> DoUnmapMemory(s, cmd)
      [] cmd.type = "VkCmdBeginRenderPass" -> DoCmdBeginRenderPass(s, cmd)
      [] cmd.type = "VkCmdNextSubpass" -> DoCmdNextSubpass(s, cmd)
      [] cmd.type = "VkCmdEndRenderPass" -> DoCmdEndRenderPass(s, cmd)
      [] cmd.type = "VkCmdCopyImage" -> DoCmdCopyImage(s, cmd)
      [] cmd.type = "VkCmdCopyBufferToImage" -> DoCmdCopyBufferToImage(s, cmd)
      [] cmd.type = "VkCmdBlitImage" -> DoCmdBlitImage(s, cmd)
      [] cmd.type = "VkCmdResolveImage" -> DoCmdResolveImage(s, cmd)
      [] cmd.type = "VkCmdClearColorImage" -> DoCmdClearColorImage(s, cmd)
      [] cmd.type = "VkCmdClearDepthStencilImage" -> DoCmdClearDepthStencilImage(s, cmd)
      [] cmd.type = "VkAllocateDescriptorSets" -> DoAllocateDescriptorSets(s, cmd)
      [] cmd.type = "VkUpdateDescriptorSets" -> DoUpdateDescriptorSets(s, cmd)
      [] cmd.type = "VkCmdBindDescriptorSets" -> DoCmdBindDescriptorSets(s, cmd)
      [] cmd.type = "VkCmdDispatch" -> DoCmdDispatch(s, cmd)
      [] cmd.type = "VkCmdDraw" -> DoCmdDraw(s, cmd)
      [] cmd.type = "VkCmdBindIndexBuffer" -> DoCmdBindIndexBuffer(s, cmd)
      [] cmd.type = "VkCmdDrawIndexed" -> DoCmdDrawIndexed(s, cmd)
      [] OTHER -> keepUnhandled(s, cmd)

\* BuildFootprint, lines 1588-2879, for a command whose mutate succeeds: the
\* command's behaviour, the main switch (a command without a case is kept
\* alive), AddBehavior; a panic leaves the behaviour out.
BuildTop(s, cmd) == AddBehavior(Dispatch(NewBehavior(s, <<s.nextId>>, "command"), cmd))

\* lines 2881-2887: the rollout after a VkQueueSubmit and a VkSetEvent.
rollOutAfter(s, cmd) ==
    IF ~s.crashed /\ cmd.type \in {"VkQueueSubmit", "VkSetEvent"}
    THEN rollOutExecuted(s, cmd.executed)
    ELSE s

\* the data the call before returned joins the data of the framebuffer
appendFbData(r) == [r EXCEPT !.fbData = @ \o r.data]

\* lines 2892-2906: the data of the images attached to the framebuffer of
\* the last draw, gathered with a nil behaviour.
RECURSIVE fbDataFrom(_, _, _)
fbDataFrom(s, imgs, i) ==
    IF i > Len(imgs) \/ s.crashed THEN s
    ELSE fbDataFrom(appendFbData(getImageData(s, imgs[i])), imgs, i + 1)

\* lines 2908-2912: a second behaviour of the command reads that data.
readLastDraw(r) ==
    IF r.crashed \/ r.fbData = <<>> THEN r
    ELSE AddBehavior(read(NewBehavior(r, <<r.nextId>>, "framebuffer"), r.fbData))

\* A builder without the behaviour for the last draw.
noLastDraw(s) == s

\* lines 2888-2913
lastDrawFramebuffer(s) ==
    IF s.crashed THEN s
    ELSE [readLastDraw(fbDataFrom([s EXCEPT !.nobh = TRUE, !.fbData = <<>>],
                                  s.LastDrawInfos, 1))
            EXCEPT !.nobh = FALSE]

\* cmd.Mutate: the error it returns, and what it leaves in the collaborator's
\* LastDrawInfos when the commands it executed draw into a framebuffer or
\* when the last submission becomes a present.
mutateFails(cmd) == "mutate" \in DOMAIN cmd /\ cmd.mutate = "error"
Mutate(s, cmd) ==
    IF "lastDraw" \in DOMAIN cmd THEN [s EXCEPT !.LastDrawInfos = cmd.lastDraw]
    ELSE IF cmd.type = "VkQueuePresentKHR" THEN [s EXCEPT !.LastDrawInfos = <<>>]
    ELSE s

\* A builder that stamps the command although its mutate failed.
stampAnyway(s, cmd) ==
    lastDrawFramebuffer(rollOutAfter(BuildTop(Mutate(s, cmd), cmd), cmd))

\* BuildFootprint from the call of mutate on: nothing is stamped when mutate
\* returns an error.
stamp(s, cmd) ==
    IF mutateFails(cmd) THEN s
    ELSE lastDrawFramebuffer(rollOutAfter(BuildTop(Mutate(s, cmd), cmd), cmd))

\* BuildFootprint: cmd.executed is what the PostSubcommand callback collected
\* during mutate; the collaborator hands the next command the next id.
BuildFootprint(s, cmd) ==
    [stamp(s, cmd) EXCEPT !.nextId = @ + 1, !.trace = Append(@, cmd)]

\* One command of a trace of at most max commands.
Step(cmd, max) ==
    /\ nextId <= max
    /\ Commit(BuildFootprint(State, cmd))

-----------------------------------------------------------------------------
(* Device memory traces *)

\* The driver hands out handles that are not in use.
VkAllocateMemory ==
    \E m \in MemoryHandles, c \in BOOLEAN :
        /\ ~crashed
        /\ m \notin DOMAIN DeviceMemories
        /\ Step([type |-> "VkAllocateMemory", memory |-> m, coherent |-> c], MaxMemCmds)

VkFlushMappedMemoryRanges ==
    \E r \in {x \in MemoryRanges : InRange(x)} :
        /\ ~crashed
        /\ Step([type |-> "VkFlushMappedMemoryRanges", ranges |-> <<r>>,
                 observations |-> <<>>], MaxMemCmds)

VkInvalidateMappedMemoryRanges ==
    \E r \in {x \in MemoryRanges : InRange(x)} :
        /\ ~crashed
        /\ Step([type |-> "VkInvalidateMappedMemoryRanges", ranges |-> <<r>>], MaxMemCmds)

NextMem ==
    \/ VkAllocateMemory
    \/ VkFlushMappedMemoryRanges
    \/ VkInvalidateMappedMemoryRanges

SpecMem == Init /\ [][NextMem]_vars

-----------------------------------------------------------------------------
(* Direct calls of the emitter *)

\* The variables handed to the emitter: the null handle, a handle, a span of
\* a memory, a span of the null memory.
EmitVars ==
    {toVkHandle(0), toVkHandle(3), newMemorySpan(3, 0, 2), newMemorySpan(0, 0, 1)}
EmitLists == {<<a>> : a \in EmitVars} \cup {<<a, b>> : a \in EmitVars, b \in EmitVars}

\* One behaviour stamped by one call of read, write or modify.
EmitStep(cmd) ==
    /\ nextId <= MaxEmits
    /\ Commit([AddBehavior(DoEmit(NewBehavior(State, <<nextId>>, "command"), cmd))
                 EXCEPT !.nextId = @ + 1, !.trace = Append(@, cmd)])

Emit ==
    \E op \in {"read", "write", "modify"}, cs \in EmitLists :
        /\ ~crashed
        /\ EmitStep([type |-> "Emit", op |-> op, cs |-> cs])

NextEmit == Emit

SpecEmit == Init /\ [][NextEmit]_vars

-----------------------------------------------------------------------------
(* What the collaborator reports as executed *)

QueueHandles == {7}
CommandBufferHandles == {1, 2, 3}
EventHandles == {9}
SemaphoreHandles == {4}
FenceHandles == {5}

SubmitInfo(cbs, wait, signal) ==
    [commandBuffers |-> cbs, waitSemaphores |-> wait, signalSemaphores |-> signal]

\* A VkQueueSubmit on the queue; executed is filled in by the rollout.
QueueSubmitCmd(submits, fence) ==
    [type |-> "VkQueueSubmit", queue |-> 7, submits |-> submits, fence |-> fence,
     observations |-> <<>>, executed |-> <<>>]

\* The index of a command of a submit that the builder did not record (the
\* collaborator numbers every recorded command, the builder only those it
\* handles).
Foreign(s, id) == <<id, 0, 0, Len(s.submitInfos[id].submitted)>>

\* What the PostSubcommand callback can collect next, l being collected
\* already: per submit the next pending command in submission order and, when
\* diverging, the index of a command the builder did not record.
ExecutedNext(s, l, diverging) ==
    UNION {LET k == Cardinality({n \in 1..Len(l) : l[n][1] = id /\ l[n] # Foreign(s, id)})
               pend == s.submitInfos[id].pendingCommands
           IN (IF k < Len(pend) THEN {pend[k + 1].id} ELSE {})
              \cup (IF diverging THEN {Foreign(s, id)} ELSE {}) :
           id \in DOMAIN s.submitInfos}

RECURSIVE ExecutedListsFrom(_, _, _, _)
ExecutedListsFrom(s, l, n, diverging) ==
    {l} \cup (IF n = 0 THEN {}
              ELSE UNION {ExecutedListsFrom(s, Append(l, e), n - 1, diverging) :
                             e \in ExecutedNext(s, l, diverging)})

\* The lists of at most MaxExec executed subcommands the collaborator can
\* report during a command, s being the state after the main switch.
ExecutedLists(s, diverging) ==
    IF s.crashed THEN {<<>>} ELSE ExecutedListsFrom(s, <<>>, MaxExec, diverging)

-----------------------------------------------------------------------------
(* Traces that record command buffers and submit them; nothing is reported *)
(* as executed.                                                            *)

\* The driver hands out handles that are not in use.
VkAllocateCommandBuffers ==
    /\ ~crashed
    /\ 1 \notin DOMAIN commandBuffers
    /\ Step([type |-> "VkAllocateCommandBuffers", commandBuffers |-> <<1, 2, 3>>], MaxCmds)

VkCmdSetLineWidth ==
    \E cb \in CommandBufferHandles :
        /\ ~crashed
        /\ Step([type |-> "VkCmdSetLineWidth", commandBuffer |-> cb], MaxCmds)

\* 0 is the null handle.
VkCmdExecuteCommands ==
    \E scbs \in {<<2, 3>>, <<0, 3>>} :
        /\ ~crashed
        /\ Step([type |-> "VkCmdExecuteCommands", commandBuffer |-> 1,
                 secondaries |-> scbs], MaxCmds)

\* 4 is a command buffer handle that was never allocated.
SubmitShapes ==
    {<<SubmitInfo(<<1>>, <<>>, <<>>)>>,
     <<SubmitInfo(<<2>>, <<>>, <<>>), SubmitInfo(<<1, 3>>, <<>>, <<>>)>>,
     <<SubmitInfo(<<4, 1>>, <<>>, <<>>)>>}

VkQueueSubmit ==
    \E submits \in SubmitShapes :
        /\ ~crashed
        /\ Step(QueueSubmitCmd(submits, 0), MaxCmds)

Next ==
    \/ VkAllocateCommandBuffers
    \/ VkCmdSetLineWidth
    \/ VkCmdExecuteCommands
    \/ VkQueueSubmit

Spec == Init /\ [][Next]_vars

-----------------------------------------------------------------------------
(* Traces whose submits are rolled out, in order or not *)

RollAllocateCommandBuffers ==
    /\ ~crashed
    /\ 1 \notin DOMAIN commandBuffers
    /\ Step([type |-> "VkAllocateCommandBuffers", commandBuffers |-> <<1>>], MaxRollCmds)

RollCmdSetLineWidth ==
    /\ ~crashed
    /\ Step([type |-> "VkCmdSetLineWidth", commandBuffer |-> 1], MaxRollCmds)

RollCreateEvent ==
    \E e \in EventHandles :
        /\ ~crashed
        /\ e \notin DOMAIN events
        /\ Step([type |-> "VkCreateEvent", event |-> e], MaxRollCmds)

RollQueueSubmit ==
    \E ex \in ExecutedLists(
                  BuildTop(State, QueueSubmitCmd(<<SubmitInfo(<<1>>, <<>>, <<>>)>>, 0)), TRUE) :
        /\ ~crashed
        /\ Step([QueueSubmitCmd(<<SubmitInfo(<<1>>, <<>>, <<>>)>>, 0)
                    EXCEPT !.executed = ex], MaxRollCmds)

RollSetEvent ==
    \E e \in EventHandles :
        \E ex \in ExecutedLists(
                      BuildTop(State, [type |-> "VkSetEvent", event |-> e,
                                       observations |-> <<>>]), TRUE) :
            /\ ~crashed
            /\ Step([type |-> "VkSetEvent", event |-> e, observations |-> <<>>,
                     executed |-> ex], MaxRollCmds)

NextRoll ==
    \/ RollAllocateCommandBuffers
    \/ RollCmdSetLineWidth
    \/ RollCreateEvent
    \/ RollQueueSubmit
    \/ RollSetEvent

SpecRoll == Init /\ [][NextRoll]_vars

-----------------------------------------------------------------------------
(* Traces with a semaphore and a fence *)

SyncCreateSemaphore ==
    \E sp \in SemaphoreHandles :
        /\ ~crashed
        /\ sp \notin DOMAIN semaphoreSignals
        /\ Step([type |-> "VkCreateSemaphore", semaphore |-> sp], MaxSyncCmds)

SyncCreateFence ==
    \E f \in FenceHandles :
        /\ ~crashed
        /\ f \notin DOMAIN fences
        /\ Step([type |-> "VkCreateFence", fence |-> f], MaxSyncCmds)

SyncAllocateCommandBuffers ==
    /\ ~crashed
    /\ 1 \notin DOMAIN commandBuffers
    /\ Step([type |-> "VkAllocateCommandBuffers", commandBuffers |-> <<1>>], MaxSyncCmds)

SyncCmdSetLineWidth ==
    /\ ~crashed
    /\ Step([type |-> "VkCmdSetLineWidth", commandBuffer |-> 1], MaxSyncCmds)

\* A submit that waits for and signals nothing, and one that waits for a
\* semaphore, signals it and signals a fence; 0 is the null handle.
SyncSubmits ==
    {QueueSubmitCmd(<<SubmitInfo(<<1>>, <<>>, <<>>)>>, 0),
     QueueSubmitCmd(<<SubmitInfo(<<1>>, <<4, 0>>, <<4>>)>>, 5)}

SyncQueueSubmit ==
    \E cmd \in SyncSubmits :
        \E ex \in ExecutedLists(BuildTop(State, cmd), TRUE) :
            /\ ~crashed
            /\ Step([cmd EXCEPT !.executed = ex], MaxSyncCmds)

NextSync ==
    \/ SyncCreateSemaphore
    \/ SyncCreateFence
    \/ SyncAllocateCommandBuffers
    \/ SyncCmdSetLineWidth
    \/ SyncQueueSubmit

SpecSync == Init /\ [][NextSync]_vars

-----------------------------------------------------------------------------
(* Traces that bind memory to images and buffers                           *)
(* 3 is a device memory, 11 an image, 12 a buffer, 13 a swapchain and 14   *)
(* its image.  Sizes are not zero and no range wraps around.               *)

\* A sparse bind, and the bind of a whole resource at offset 0.
SparseBinds ==
    {[memory |-> 3, resourceOffset |-> o, size |-> z, memoryOffset |-> mo] :
        o \in 0..(MaxAddr - 1), z \in 1..MaxAddr, mo \in 0..1}
BindsInRange == {b \in SparseBinds : b.resourceOffset + b.size <= MaxAddr}

BindAllocateMemory ==
    /\ ~crashed
    /\ 3 \notin DOMAIN DeviceMemories
    /\ Step([type |-> "VkAllocateMemory", memory |-> 3, coherent |-> FALSE], MaxBindCmds)

BindCreateImage ==
    /\ ~crashed
    /\ 11 \notin DOMAIN images
    /\ Step([type |-> "VkCreateImage", image |-> 11], MaxBindCmds)

BindCreateBuffer ==
    /\ ~crashed
    /\ toVkHandle(12) \notin DOMAIN defB
    /\ Step([type |-> "VkCreateBuffer", buffer |-> 12], MaxBindCmds)

BindGetSwapchainImagesKHR ==
    \E imgs \in {<<>>, <<14>>} :
        /\ ~crashed
        /\ Step([type |-> "VkGetSwapchainImagesKHR", swapchain |-> 13, images |-> imgs],
                MaxBindCmds)

BindImageMemory ==
    \E b \in {x \in BindsInRange : x.resourceOffset = 0} :
        /\ ~crashed
        /\ 3 \in DOMAIN DeviceMemories
        /\ 11 \in DOMAIN images
        /\ Step([type |-> "VkBindImageMemory", image |-> 11, memory |-> 3,
                 size |-> b.size, memoryOffset |-> b.memoryOffset], MaxBindCmds)

BindBufferMemory ==
    \E b \in {x \in BindsInRange : x.resourceOffset = 0} :
        /\ ~crashed
        /\ 3 \in DOMAIN DeviceMemories
        /\ toVkHandle(12) \in DOMAIN defB
        /\ Step([type |-> "VkBindBufferMemory", buffer |-> 12, memory |-> 3,
                 size |-> b.size, memoryOffset |-> b.memoryOffset], MaxBindCmds)

\* A bind of the null memory is part of the inputs.
BindQueueBindSparse ==
    \E k \in {"buffer", "image"}, b \in BindsInRange, more \in BOOLEAN :
        /\ ~crashed
        /\ 3 \in DOMAIN DeviceMemories
        /\ k = "buffer" => toVkHandle(12) \in DOMAIN defB
        /\ k = "image" => 11 \in DOMAIN images
        /\ Step([type |-> "VkQueueBindSparse", queue |-> 7,
                 bufferBinds |-> IF k = "buffer"
                                 THEN <<[kind |-> k, resource |-> 12,
                                         binds |-> IF more
                                                   THEN <<b, [b EXCEPT !.resourceOffset = 0,
                                                                       !.size = 1]>>
                                                   ELSE <<b>>]>>
                                 ELSE <<>>,
                 opaqueBinds |-> IF k = "image"
                                 THEN <<[kind |-> k, resource |-> 11,
                                         binds |-> IF more
                                                   THEN <<[b EXCEPT !.memory = 0], b>>
                                                   ELSE <<b>>]>>
                                 ELSE <<>>], MaxBindCmds)

BindFlushMappedMemoryRanges ==
    \E r \in {x \in MemoryRanges : InRange(x) /\ x.memory # 0} :
        /\ ~crashed
        /\ 3 \in DOMAIN DeviceMemories
        /\ Step([type |-> "VkFlushMappedMemoryRanges", ranges |-> <<r>>,
                 observations |-> <<>>], MaxBindCmds)

\* 16 is the view.  A size of vkWholeSize, and one that makes offset + size
\* wrap around, are part of the inputs.
BindCreateBufferView ==
    \E o \in 0..(MaxAddr - 1), z \in (1..MaxAddr) \cup {vkWholeSize - 1, vkWholeSize} :
        /\ ~crashed
        /\ toVkHandle(12) \in DOMAIN defB
        /\ Step([type |-> "VkCreateBufferView", view |-> 16, buffer |-> 12,
                 offset |-> o, size |-> z], MaxBindCmds)

NextBind ==
    \/ BindAllocateMemory
    \/ BindCreateImage
    \/ BindCreateBuffer
    \/ BindGetSwapchainImagesKHR
    \/ BindImageMemory
    \/ BindBufferMemory
    \/ BindQueueBindSparse
    \/ BindFlushMappedMemoryRanges
    \/ BindCreateBufferView

SpecBind == Init /\ [][NextBind]_vars

-----------------------------------------------------------------------------
(* Traces that begin and reset command buffers between recordings          *)
(* 1 is a primary command buffer, 2 a secondary one; 4 was never allocated. *)

BeginAllocateCommandBuffers ==
    /\ ~crashed
    /\ 1 \notin DOMAIN commandBuffers
    /\ Step([type |-> "VkAllocateCommandBuffers", commandBuffers |-> <<1, 2>>], MaxBeginCmds)

BeginCmdSetLineWidth ==
    \E cb \in {1, 2} :
        /\ ~crashed
        /\ cb \in DOMAIN commandBuffers
        /\ Step([type |-> "VkCmdSetLineWidth", commandBuffer |-> cb], MaxBeginCmds)

BeginCmdExecuteCommands ==
    /\ ~crashed
    /\ 1 \in DOMAIN commandBuffers
    /\ Step([type |-> "VkCmdExecuteCommands", commandBuffer |-> 1, secondaries |-> <<2>>],
            MaxBeginCmds)

BeginCommandBuffer ==
    \E cb \in {1, 2, 4} :
        /\ ~crashed
        /\ 1 \in DOMAIN commandBuffers
        /\ Step([type |-> "VkBeginCommandBuffer", commandBuffer |-> cb], MaxBeginCmds)

BeginResetCommandBuffer ==
    \E cb \in {1, 2} :
        /\ ~crashed
        /\ 1 \in DOMAIN commandBuffers
        /\ Step([type |-> "VkResetCommandBuffer", commandBuffer |-> cb], MaxBeginCmds)

BeginQueueSubmit ==
    /\ ~crashed
    /\ 1 \in DOMAIN commandBuffers
    /\ Step(QueueSubmitCmd(<<SubmitInfo(<<1>>, <<>>, <<>>)>>, 0), MaxBeginCmds)

NextBegin ==
    \/ BeginAllocateCommandBuffers
    \/ BeginCmdSetLineWidth
    \/ BeginCmdExecuteCommands
    \/ BeginCommandBuffer
    \/ BeginResetCommandBuffer
    \/ BeginQueueSubmit

SpecBegin == Init /\ [][NextBegin]_vars

-----------------------------------------------------------------------------
(* Traces that create objects, wait for them and destroy them              *)
(* 0 is the null handle; 17 is an image view.  A handle that is not null   *)
(* is that of an object created before and not destroyed since.            *)

LifeCreate ==
    \E cmd \in {[type |-> "VkCreateSemaphore", semaphore |-> 4],
                [type |-> "VkCreateFence", fence |-> 5],
                [type |-> "VkCreateEvent", event |-> 9],
                [type |-> "VkCreateImage", image |-> 11],
                [type |-> "VkCreateBuffer", buffer |-> 12],
                [type |-> "VkAllocateMemory", memory |-> 3, coherent |-> FALSE],
                [type |-> "VkAllocateCommandBuffers", commandBuffers |-> <<1>>]} :
        /\ ~crashed
        /\ \A p \in 1..Len(trace) : trace[p].type # cmd.type
        /\ Step(cmd, MaxLifeCmds)

LifeQueueSubmit ==
    /\ ~crashed
    /\ Step(QueueSubmitCmd(<<SubmitInfo(<<>>, <<>>, <<>>)>>, 0), MaxLifeCmds)

LifeDestroySemaphore ==
    \E h \in {0} \cup DOMAIN semaphoreSignals :
        /\ ~crashed
        /\ Step([type |-> "VkDestroySemaphore", semaphore |-> h], MaxLifeCmds)

LifeDestroyEvent ==
    \E h \in {0} \cup DOMAIN events :
        /\ ~crashed
        /\ Step([type |-> "VkDestroyEvent", event |-> h], MaxLifeCmds)

LifeDestroyFence ==
    \E h \in {0} \cup DOMAIN fences :
        /\ ~crashed
        /\ Step([type |-> "VkDestroyFence", fence |-> h], MaxLifeCmds)

LifeDestroyImage ==
    \E h \in {0} \cup DOMAIN images :
        /\ ~crashed
        /\ Step([type |-> "VkDestroyImage", image |-> h], MaxLifeCmds)

LifeDestroyBuffer ==
    \E h \in {0, 12} :
        /\ ~crashed
        /\ h # 0 => toVkHandle(h) \in DOMAIN defB
        /\ Step([type |-> "VkDestroyBuffer", buffer |-> h], MaxLifeCmds)

LifeDestroyImageView ==
    \E h \in {0, 17} :
        /\ ~crashed
        /\ Step([type |-> "VkDestroyImageView", imageView |-> h], MaxLifeCmds)

LifeFreeMemory ==
    \E h \in {0} \cup DOMAIN DeviceMemories :
        /\ ~crashed
        /\ Step([type |-> "VkFreeMemory", memory |-> h], MaxLifeCmds)

LifeFreeCommandBuffers ==
    \E cbs \in {<<0>>, <<1>>, <<0, 1>>} :
        /\ ~crashed
        /\ 1 \in DOMAIN commandBuffers
        /\ Step([type |-> "VkFreeCommandBuffers", commandBuffers |-> cbs], MaxLifeCmds)

LifeGetEventStatus ==
    \E h \in {0} \cup DOMAIN events :
        /\ ~crashed
        /\ Step([type |-> "VkGetEventStatus", event |-> h], MaxLifeCmds)

LifeGetFenceStatus ==
    \E h \in {0} \cup DOMAIN fences :
        /\ ~crashed
        /\ Step([type |-> "VkGetFenceStatus", fence |-> h], MaxLifeCmds)

LifeWaitForFences ==
    \E fs \in {<<0>>} \cup {<<0, h>> : h \in DOMAIN fences} :
        /\ ~crashed
        /\ Step([type |-> "VkWaitForFences", fences |-> fs], MaxLifeCmds)

LifeQueueWaitIdle ==
    /\ ~crashed
    /\ Step([type |-> "VkQueueWaitIdle", queue |-> 7], MaxLifeCmds)

LifeDeviceWaitIdle ==
    /\ ~crashed
    /\ Step([type |-> "VkDeviceWaitIdle"], MaxLifeCmds)

NextLife ==
    \/ LifeCreate
    \/ LifeQueueSubmit
    \/ LifeDestroySemaphore
    \/ LifeDestroyEvent
    \/ LifeDestroyFence
    \/ LifeDestroyImage
    \/ LifeDestroyBuffer
    \/ LifeDestroyImageView
    \/ LifeFreeMemory
    \/ LifeFreeCommandBuffers
    \/ LifeGetEventStatus
    \/ LifeGetFenceStatus
    \/ LifeWaitForFences
    \/ LifeQueueWaitIdle
    \/ LifeDeviceWaitIdle

SpecLife == Init /\ [][NextLife]_vars

-----------------------------------------------------------------------------
(* Traces with commands the builder has no case for, commands whose mutate  *)
(* fails and submits whose draws leave a framebuffer in LastDrawInfos       *)
(* 11 and 18 are images, 3 is a memory.                                     *)

\* Command types without a case in the main switch.
UnhandledTypes == {"VkGetFenceFdKHR", "VkGetSemaphoreFdKHR"}

\* The command, with a mutate that returns an error.
Failing(cmd) == ("mutate" :> "error") @@ cmd

OtherCreate ==
    \E cmd \in {[type |-> "VkCreateImage", image |-> 11],
                [type |-> "VkAllocateMemory", memory |-> 3, coherent |-> FALSE]} :
        /\ ~crashed
        /\ \A p \in 1..Len(trace) : trace[p] # cmd
        /\ Step(cmd, MaxOtherCmds)

OtherBindImageMemory ==
    \E o \in 0..1 :
        /\ ~crashed
        /\ 11 \in DOMAIN images /\ 3 \in DOMAIN DeviceMemories
        /\ Step([type |-> "VkBindImageMemory", image |-> 11, memory |-> 3,
                 size |-> 2, memoryOffset |-> o], MaxOtherCmds)

\* A submit: its command buffers are left out, what their draws leave in
\* LastDrawInfos is kept.
OtherQueueSubmit ==
    \E imgs \in {<<>>, <<11>>, <<11, 11>>} :
        /\ ~crashed
        /\ imgs # <<>> => 11 \in DOMAIN images
        /\ Step(("lastDraw" :> imgs) @@ QueueSubmitCmd(<<SubmitInfo(<<>>, <<>>, <<>>)>>, 0),
                MaxOtherCmds)

OtherUnhandled ==
    \E t \in UnhandledTypes :
        /\ ~crashed
        /\ Step([type |-> t], MaxOtherCmds)

OtherFailed ==
    \E cmd \in {[type |-> "VkCreateImage", image |-> 18],
                [type |-> "VkAllocateMemory", memory |-> 3, coherent |-> FALSE],
                [type |-> "VkBindImageMemory", image |-> 11, memory |-> 3,
                 size |-> 2, memoryOffset |-> 0],
                [type |-> "VkGetFenceFdKHR"],
                ("lastDraw" :> <<11>>) @@ QueueSubmitCmd(<<SubmitInfo(<<>>, <<>>, <<>>)>>, 0)} :
        /\ ~crashed
        /\ Step(Failing(cmd), MaxOtherCmds)

NextOther ==
    \/ OtherCreate
    \/ OtherBindImageMemory
    \/ OtherQueueSubmit
    \/ OtherUnhandled
    \/ OtherFailed

SpecOther == Init /\ [][NextOther]_vars

-----------------------------------------------------------------------------
(* Traces whose commands are given handles of objects that were never      *)
(* created or that were destroyed before                                    *)
(* 4 is a semaphore, 5 a fence, 9 an event, 11 an image, 3 a memory and 1  *)
(* a command buffer.                                                        *)

UnknownCreate ==
    \E cmd \in {[type |-> "VkCreateFence", fence |-> 5],
                [type |-> "VkCreateEvent", event |-> 9],
                [type |-> "VkCreateImage", image |-> 11],
                [type |-> "VkAllocateMemory", memory |-> 3, coherent |-> FALSE],
                [type |-> "VkAllocateCommandBuffers", commandBuffers |-> <<1>>]} :
        /\ ~crashed
        /\ \A p \in 1..Len(trace) : trace[p] # cmd
        /\ Step(cmd, MaxUnknownCmds)

UnknownDestroy ==
    \E cmd \in {[type |-> "VkDestroySemaphore", semaphore |-> 4],
                [type |-> "VkDestroyFence", fence |-> 5],
                [type |-> "VkDestroyEvent", event |-> 9],
                [type |-> "VkDestroyImage", image |-> 11],
                [type |-> "VkFreeCommandBuffers", commandBuffers |-> <<1>>]} :
        /\ ~crashed
        /\ Step(cmd, MaxUnknownCmds)

UnknownStatus ==
    \E cmd \in {[type |-> "VkGetFenceStatus", fence |-> 5],
                [type |-> "VkWaitForFences", fences |-> <<5>>],
                [type |-> "VkGetEventStatus", event |-> 9]} :
        /\ ~crashed
        /\ Step(cmd, MaxUnknownCmds)

UnknownBindImageMemory ==
    /\ ~crashed
    /\ 3 \in DOMAIN DeviceMemories
    /\ Step([type |-> "VkBindImageMemory", image |-> 11, memory |-> 3,
             size |-> 2, memoryOffset |-> 0], MaxUnknownCmds)

UnknownCmdSetLineWidth ==
    /\ ~crashed
    /\ Step([type |-> "VkCmdSetLineWidth", commandBuffer |-> 1], MaxUnknownCmds)

NextUnknown ==
    \/ UnknownCreate
    \/ UnknownDestroy
    \/ UnknownStatus
    \/ UnknownBindImageMemory
    \/ UnknownCmdSetLineWidth

SpecUnknown == Init /\ [][NextUnknown]_vars

-----------------------------------------------------------------------------
(* Traces that acquire and present swapchain images                        *)
(* 13 is a swapchain with the images 14 and 15, 19 one with the image 20;  *)
(* 4 is a semaphore and 7 the queue.                                        *)

SwapchainImages(vkSw) == IF vkSw = 13 THEN <<14, 15>> ELSE <<20>>

\* One image of a present or of an acquire: the swapchain, the index and
\* the image the collaborator has there.
Presentable ==
    {[swapchain |-> 13, imageIndex |-> 0, image |-> 14],
     [swapchain |-> 13, imageIndex |-> 1, image |-> 15],
     [swapchain |-> 19, imageIndex |-> 0, image |-> 20]}
Presented(s) == {p \in Presentable : hasSwapchainImage(s, p.swapchain, p.imageIndex)}

PresentCreateSemaphore ==
    /\ ~crashed
    /\ 4 \notin Semaphores
    /\ Step([type |-> "VkCreateSemaphore", semaphore |-> 4], MaxPresentCmds)

PresentCreateSwapchainKHR ==
    \E vkSw \in {13, 19} :
        /\ ~crashed
        /\ toVkHandle(vkSw) \notin DOMAIN defB
        /\ Step([type |-> "VkCreateSwapchainKHR", swapchain |-> vkSw], MaxPresentCmds)

PresentGetSwapchainImagesKHR ==
    \E vkSw \in {13, 19} :
        /\ ~crashed
        /\ toVkHandle(vkSw) \in DOMAIN defB
        /\ vkSw \notin DOMAIN swapchainImageAcquired
        /\ Step([type |-> "VkGetSwapchainImagesKHR", swapchain |-> vkSw,
                 images |-> SwapchainImages(vkSw)], MaxPresentCmds)

PresentAcquireNextImageKHR ==
    \E p \in Presented(State), vkSp \in {0} \cup Semaphores :
        /\ ~crashed
        /\ Step([type |-> "VkAcquireNextImageKHR", semaphore |-> vkSp, fence |-> 0,
                 swapchain |-> p.swapchain, imageIndex |-> p.imageIndex,
                 image |-> p.image], MaxPresentCmds)

\* A present of one image, or of one image of each swapchain.
PresentQueuePresentKHR ==
    \E p \in Presented(State), q \in Presented(State), sps \in {<<>>, <<4>>} :
        /\ ~crashed
        /\ p.swapchain = 13
        /\ sps # <<>> => 4 \in Semaphores
        /\ Step([type |-> "VkQueuePresentKHR", queue |-> 7, waitSemaphores |-> sps,
                 swapchains |-> IF q.swapchain = 13 THEN <<p>> ELSE <<p, q>>],
                MaxPresentCmds)

NextPresent ==
    \/ PresentCreateSemaphore
    \/ PresentCreateSwapchainKHR
    \/ PresentGetSwapchainImagesKHR
    \/ PresentAcquireNextImageKHR
    \/ PresentQueuePresentKHR

SpecPresent == Init /\ [][NextPresent]_vars

-----------------------------------------------------------------------------
(* Traces that map coherent memory, submit and unmap with observations     *)
(* 3 and 6 are memories, mapped at the addresses 1 and 4; 1 is a command   *)
(* buffer.                                                                  *)

\* What VkMapMemory is asked for and the address the driver returns.
Mappings(vkMem) ==
    IF vkMem = 3
    THEN {[offset |-> 1, size |-> 2, address |-> 1]}
    ELSE {[offset |-> 0, size |-> 2, address |-> 4]}

\* The memory is mapped: its last VkMapMemory has no VkUnmapMemory after it.
IsMapped(vkMem) ==
    \E p \in 1..Len(trace) :
        /\ trace[p].type = "VkMapMemory" /\ trace[p].memory = vkMem
        /\ \A q \in (p + 1)..Len(trace) :
              ~(trace[q].type = "VkUnmapMemory" /\ trace[q].memory = vkMem)

\* The read observations of a command: ranges of addresses, disjoint from
\* each other.
ObservedReads ==
    {<<[base |-> 0, size |-> 2]>>, <<[base |-> 2, size |-> 3]>>,
     <<[base |-> 1, size |-> 1], [base |-> 2, size |-> 1]>>}

CoherentAllocateMemory ==
    \E vkMem \in {3, 6}, c \in BOOLEAN :
        /\ ~crashed
        /\ vkMem \notin DOMAIN DeviceMemories
        /\ vkMem = 6 => c
        /\ Step([type |-> "VkAllocateMemory", memory |-> vkMem, coherent |-> c],
                MaxCoherentCmds)

CoherentMapMemory ==
    \E vkMem \in DOMAIN DeviceMemories :
        \E mp \in Mappings(vkMem) :
            /\ ~crashed
            /\ ~IsMapped(vkMem)
            /\ Step([type |-> "VkMapMemory", memory |-> vkMem, offset |-> mp.offset,
                     size |-> mp.size, address |-> mp.address], MaxCoherentCmds)

CoherentUnmapMemory ==
    \E vkMem \in DOMAIN DeviceMemories, obs \in ObservedReads :
        /\ ~crashed
        /\ IsMapped(vkMem)
        /\ Step([type |-> "VkUnmapMemory", memory |-> vkMem, observations |-> obs],
                MaxCoherentCmds)

CoherentAllocateCommandBuffers ==
    /\ ~crashed
    /\ 1 \notin DOMAIN commandBuffers
    /\ Step([type |-> "VkAllocateCommandBuffers", commandBuffers |-> <<1>>],
            MaxCoherentCmds)

CoherentCmdSetLineWidth ==
    /\ ~crashed
    /\ 1 \in DOMAIN commandBuffers
    /\ commandsOf(State, 1) = <<>>
    /\ Step([type |-> "VkCmdSetLineWidth", commandBuffer |-> 1], MaxCoherentCmds)

\* A submit of the command buffer: the collaborator executes its commands in
\* order, all of them or some.
CoherentQueueSubmit ==
    \E obs \in ObservedReads :
        \E ex \in ExecutedLists(
                      BuildTop(State, QueueSubmitCmd(<<SubmitInfo(<<1>>, <<>>, <<>>)>>, 0)),
                      FALSE) :
            /\ ~crashed
            /\ 1 \in DOMAIN commandBuffers
            /\ Step([QueueSubmitCmd(<<SubmitInfo(<<1>>, <<>>, <<>>)>>, 0)
                        EXCEPT !.executed = ex, !.observations = obs], MaxCoherentCmds)

NextCoherent ==
    \/ CoherentAllocateMemory
    \/ CoherentMapMemory
    \/ CoherentUnmapMemory
    \/ CoherentAllocateCommandBuffers
    \/ CoherentCmdSetLineWidth
    \/ CoherentQueueSubmit

SpecCoherent == Init /\ [][NextCoherent]_vars

-----------------------------------------------------------------------------
(* Traces whose submits draw into a framebuffer with bound images          *)
(* 11 is an image, 18 an image the builder has no shadow entry of, 3 a     *)
(* memory that is not coherent.                                             *)

PinCreate ==
    \E cmd \in {[type |-> "VkCreateImage", image |-> 11],
                [type |-> "VkAllocateMemory", memory |-> 3, coherent |-> FALSE]} :
        /\ ~crashed
        /\ \A p \in 1..Len(trace) : trace[p] # cmd
        /\ Step(cmd, MaxPinCmds)

PinBindImageMemory ==
    \E z \in 1..2 :
        /\ ~crashed
        /\ 11 \in DOMAIN images /\ 3 \in DOMAIN DeviceMemories
        /\ images[11].opaqueData = <<>>
        /\ Step([type |-> "VkBindImageMemory", image |-> 11, memory |-> 3,
                 size |-> z, memoryOffset |-> 1], MaxPinCmds)

\* A flush of a range of the memory, which records a write of the range.
PinFlushMappedMemoryRanges ==
    \E o \in 0..2 :
        /\ ~crashed
        /\ 3 \in DOMAIN DeviceMemories
        /\ Step([type |-> "VkFlushMappedMemoryRanges",
                 ranges |-> <<[memory |-> 3, offset |-> o, size |-> 1]>>,
                 observations |-> <<>>], MaxPinCmds)

\* A submit: its command buffers are left out, what their draws leave in
\* LastDrawInfos is kept.
PinQueueSubmit ==
    \E imgs \in {<<>>, <<11>>, <<18, 11>>} :
        /\ ~crashed
        /\ Step(("lastDraw" :> imgs) @@ QueueSubmitCmd(<<SubmitInfo(<<>>, <<>>, <<>>)>>, 0),
                MaxPinCmds)

PinUnhandled ==
    /\ ~crashed
    /\ LastDrawInfos # <<>>
    /\ Step([type |-> "VkGetFenceFdKHR"], MaxPinCmds)

NextPin ==
    \/ PinCreate
    \/ PinBindImageMemory
    \/ PinFlushMappedMemoryRanges
    \/ PinQueueSubmit
    \/ PinUnhandled

SpecPin == Init /\ [][NextPin]_vars

-----------------------------------------------------------------------------
(* Traces that record a render pass and submit it                          *)
(* 13 is a swapchain whose images 21..24 are the attachments 0..3 of the   *)
(* framebuffer 31, through the views 41..44; 30 is the render pass, 1 the  *)
(* command buffer and 7 the queue.                                         *)

\* The load and store ops of an attachment description.
AttachmentOps ==
    {[loadOp |-> "LOAD", stencilLoadOp |-> "LOAD",
      storeOp |-> "STORE", stencilStoreOp |-> "STORE"],
     [loadOp |-> "CLEAR", stencilLoadOp |-> "CLEAR",
      storeOp |-> "DONT_CARE", stencilStoreOp |-> "DONT_CARE"],
     [loadOp |-> "LOAD", stencilLoadOp |-> "CLEAR",
      storeOp |-> "DONT_CARE", stencilStoreOp |-> "STORE"]}

\* A subpass description: the reference arrays and the depth-stencil
\* reference, <<>> when there is none.
SubpassDescription(color, resolve, input, ds) ==
    [colorAttachments |-> color, resolveAttachments |-> resolve,
     inputAttachments |-> input, depthStencilAttachment |-> ds]

\* The subpass descriptions of the render passes of the traces.  A resolve
\* reference array is empty or as long as the colour reference array, and a
\* resolve attachment that is used has a colour attachment that is used at
\* its position.
SubpassLayouts ==
    {<<SubpassDescription(<<0>>, <<>>, <<>>, <<>>)>>,
     <<SubpassDescription(<<0, 1>>, <<>>, <<>>, <<2>>),
       SubpassDescription(<<1>>, <<>>, <<0>>, <<2>>)>>,
     <<SubpassDescription(<<0, 1>>, <<2, 3>>, <<>>, <<>>)>>,
     <<SubpassDescription(<<1, 0>>, <<2, 3>>, <<>>, <<>>)>>,
     <<SubpassDescription(<<0, 1>>, <<vkAttachmentUnused, 2>>, <<>>, <<>>)>>,
     <<SubpassDescription(<<0>>, <<>>, <<0>>, <<vkAttachmentUnused>>)>>}

\* The render passes: every attachment has the same ops.
RenderPasses ==
    {[handle |-> 30, attachments |-> [ai \in 0..3 |-> ops], subpasses |-> sps] :
        ops \in AttachmentOps, sps \in SubpassLayouts}

\* The view of the attachment ai and the image behind it: a view that covers
\* its image, or the second layer of an image of two layers.
ImageView(ai, covers) ==
    [handle |-> 41 + ai, image |-> 21 + ai, type |-> "2D",
     baseArrayLayer |-> IF covers THEN 0 ELSE 1, layerCount |-> 1,
     arrayLayers |-> IF covers THEN 1 ELSE 2, imageType |-> "2D",
     width |-> 1, height |-> 1]

\* The framebuffers: covered is the set of attachments whose view covers
\* the image.
Framebuffers ==
    {[handle |-> 31, renderPass |-> 30, width |-> 1, height |-> 1, layers |-> 1,
      attachments |-> [ai \in 0..3 |-> ImageView(ai, ai \in covered)]] :
        covered \in {{}, {0, 2}, {0, 1, 2, 3}}}

\* The commands of a type among those handed to the builder so far.
Recorded(type) == {i \in DOMAIN trace : trace[i].type = type}
\* The render pass recorded in the command buffer.
RecordedPass == trace[Min(Recorded("VkCmdBeginRenderPass"))].rp
RecordedFramebuffer == trace[Min(Recorded("VkCmdBeginRenderPass"))].fb

PassGetSwapchainImagesKHR ==
    /\ ~crashed
    /\ 13 \notin DOMAIN swapchainImageAcquired
    /\ Step([type |-> "VkGetSwapchainImagesKHR", swapchain |-> 13,
             images |-> <<21, 22, 23, 24>>], MaxPassCmds)

PassAllocateCommandBuffers ==
    /\ ~crashed
    /\ 13 \in DOMAIN swapchainImageAcquired
    /\ 1 \notin DOMAIN commandBuffers
    /\ Step([type |-> "VkAllocateCommandBuffers", commandBuffers |-> <<1>>], MaxPassCmds)

PassCmdBeginRenderPass ==
    \E rp \in RenderPasses, fb \in Framebuffers :
        /\ ~crashed
        /\ 1 \in DOMAIN commandBuffers
        /\ Recorded("VkCmdBeginRenderPass") = {}
        /\ Step([type |-> "VkCmdBeginRenderPass", commandBuffer |-> 1,
                 rp |-> rp, fb |-> fb], MaxPassCmds)

\* A next subpass for every subpass but the last.
PassCmdNextSubpass ==
    /\ ~crashed
    /\ Recorded("VkCmdBeginRenderPass") # {}
    /\ Recorded("VkCmdEndRenderPass") = {}
    /\ Cardinality(Recorded("VkCmdNextSubpass")) + 1 < Len(RecordedPass.subpasses)
    /\ Step([type |-> "VkCmdNextSubpass", commandBuffer |-> 1], MaxPassCmds)

PassCmdEndRenderPass ==
    /\ ~crashed
    /\ Recorded("VkCmdBeginRenderPass") # {}
    /\ Recorded("VkCmdEndRenderPass") = {}
    /\ Cardinality(Recorded("VkCmdNextSubpass")) + 1 = Len(RecordedPass.subpasses)
    /\ Step([type |-> "VkCmdEndRenderPass", commandBuffer |-> 1], MaxPassCmds)

\* The first n commands of the submit that is being made.
PassExecuted(n) == [i \in 1..n |-> <<nextId, 0, 0, i - 1>>]

\* The submit of the command buffer; the collaborator reports the commands
\* it executed, in order.
PassQueueSubmit ==
    \E n \in 1..3 :
        /\ ~crashed
        /\ Recorded("VkCmdEndRenderPass") # {}
        /\ Recorded("VkQueueSubmit") = {}
        /\ n <= Len(commandsOf(State, 1))
        /\ Step([QueueSubmitCmd(<<SubmitInfo(<<1>>, <<>>, <<>>)>>, 0)
                    EXCEPT !.executed = PassExecuted(n)], MaxPassCmds)

NextPass ==
    \/ PassGetSwapchainImagesKHR
    \/ PassAllocateCommandBuffers
    \/ PassCmdBeginRenderPass
    \/ PassCmdNextSubpass
    \/ PassCmdEndRenderPass
    \/ PassQueueSubmit

SpecPass == Init /\ [][NextPass]_vars

-----------------------------------------------------------------------------
(* Traces that record a copy or a clear of an image and submit it           *)
(* 13 is a swapchain with the images 21, 22 and 23, of 2 x 2 x 1 texels and *)
(* one layer; 23 has two mip levels.  12 is a buffer bound to the memory 3, *)
(* 1 the command buffer and 7 the queue.                                    *)

\* The image object the collaborator has for an image; aspects tells the
\* aspects of its format.
ImageInfo(vkImg, aspects) ==
    [extent |-> <<2, 2, 1>>, arrayLayers |-> 1,
     mipLevels |-> IF vkImg = 23 THEN 2 ELSE 1, aspects |-> aspects]

\* VkImageSubresourceLayers
SubresourceLayers(aspects, mipLevel, layerCount) ==
    [aspectMask |-> aspects, mipLevel |-> mipLevel, baseArrayLayer |-> 0,
     layerCount |-> layerCount]

\* A region of a copy: the destination subresource, offset and extent.
Region(mipLevel, layerCount, offset, extent) ==
    [subresource |-> SubresourceLayers({"COLOR"}, mipLevel, layerCount),
     offset |-> offset, extent |-> extent]

\* The region lists of the copies: the whole of level 0, its top-left
\* quarter, its two halves, a quarter and the whole, the whole with all
\* remaining layers, and, for the image with two levels, both levels.
RegionLists(vkImg) ==
    {<<Region(0, 1, <<0, 0, 0>>, <<2, 2, 1>>)>>,
     <<Region(0, 1, <<0, 0, 0>>, <<1, 1, 1>>)>>,
     <<Region(0, 1, <<0, 0, 0>>, <<1, 2, 1>>), Region(0, 1, <<1, 0, 0>>, <<1, 2, 1>>)>>,
     <<Region(0, 1, <<1, 1, 0>>, <<1, 1, 1>>), Region(0, 1, <<0, 0, 0>>, <<2, 2, 1>>)>>,
     <<Region(0, vkRemainingArrayLayers, <<0, 0, 0>>, <<2, 2, 1>>)>>}
    \cup (IF vkImg = 23
          THEN {<<Region(0, 1, <<0, 0, 0>>, <<2, 2, 1>>),
                  Region(1, 1, <<0, 0, 0>>, <<1, 1, 1>>)>>}
          ELSE {})

\* The region of a blit: the destination bounds are its two corners, in
\* either order.
BlitRegion(r, flipped) ==
    [subresource |-> r.subresource,
     offsets |-> IF flipped
                 THEN <<[i \in 1..3 |-> r.offset[i] + r.extent[i]], r.offset>>
                 ELSE <<r.offset, [i \in 1..3 |-> r.offset[i] + r.extent[i]]>>,
     offset |-> r.offset, extent |-> r.extent]

\* VkImageSubresourceRange
SubresourceRange(aspects, baseMipLevel, levelCount) ==
    [aspectMask |-> aspects, baseMipLevel |-> baseMipLevel, levelCount |-> levelCount,
     baseArrayLayer |-> 0, layerCount |-> 1]

\* The range lists of the clears.
RangeLists(vkImg, aspects) ==
    {<<SubresourceRange(aspects, 0, 1)>>,
     <<SubresourceRange(aspects, 0, vkRemainingMipLevels)>>}
    \cup (IF vkImg = 23
          THEN {<<SubresourceRange(aspects, 1, 1)>>,
                <<SubresourceRange(aspects, 0, 2)>>,
                <<SubresourceRange(aspects, 0, 1), SubresourceRange(aspects, 1, 1)>>}
          ELSE {})

\* The copies and clears into the image vkImg.
CopyCommands(vkImg) ==
    {[type |-> t, commandBuffer |-> 1, srcImage |-> 21, dstImage |-> vkImg,
      dstInfo |-> ImageInfo(vkImg, {"COLOR"}), regions |-> rs] :
        t \in {"VkCmdCopyImage", "VkCmdResolveImage"}, rs \in RegionLists(vkImg)}
    \cup {[type |-> "VkCmdCopyBufferToImage", commandBuffer |-> 1, srcBuffer |-> 12,
           dstImage |-> vkImg, dstInfo |-> ImageInfo(vkImg, {"COLOR"}), regions |-> rs] :
             rs \in RegionLists(vkImg)}
    \cup {[type |-> "VkCmdBlitImage", commandBuffer |-> 1, srcImage |-> 21,
           dstImage |-> vkImg, dstInfo |-> ImageInfo(vkImg, {"COLOR"}),
           regions |-> [i \in DOMAIN rs |-> BlitRegion(rs[i], flipped)]] :
             rs \in RegionLists(vkImg), flipped \in BOOLEAN}
    \cup {[type |-> "VkCmdClearColorImage", commandBuffer |-> 1, dstImage |-> vkImg,
           dstInfo |-> ImageInfo(vkImg, {"COLOR"}), ranges |-> rs] :
             rs \in RangeLists(vkImg, {"COLOR"})}
    \cup {[type |-> "VkCmdClearDepthStencilImage", commandBuffer |-> 1, dstImage |-> vkImg,
           dstInfo |-> ImageInfo(vkImg, {"DEPTH", "STENCIL"}), ranges |-> rs] :
             rs \in RangeLists(vkImg, {"DEPTH", "STENCIL"})}

CopyTypes ==
    {"VkCmdCopyImage", "VkCmdCopyBufferToImage", "VkCmdBlitImage", "VkCmdResolveImage",
     "VkCmdClearColorImage", "VkCmdClearDepthStencilImage"}

\* The objects of the trace, made in this order: the swapchain images, the
\* memory, the binding of the buffer, a flush of the first byte of the
\* memory and the command buffer.
CopySetup ==
    <<[type |-> "VkGetSwapchainImagesKHR", swapchain |-> 13, images |-> <<21, 22, 23>>],
      [type |-> "VkAllocateMemory", memory |-> 3, coherent |-> FALSE],
      [type |-> "VkBindBufferMemory", buffer |-> 12, memory |-> 3, size |-> 2,
       memoryOffset |-> 0],
      [type |-> "VkFlushMappedMemoryRanges",
       ranges |-> <<[memory |-> 3, offset |-> 0, size |-> 1]>>, observations |-> <<>>],
      [type |-> "VkAllocateCommandBuffers", commandBuffers |-> <<1>>]>>

CopyCreate ==
    /\ ~crashed
    /\ nextId <= Len(CopySetup)
    /\ Step(CopySetup[nextId], MaxCopyCmds)

CopyRecord ==
    \E vkImg \in {22, 23} : \E cmd \in CopyCommands(vkImg) :
        /\ ~crashed
        /\ nextId = Len(CopySetup) + 1
        /\ Step(cmd, MaxCopyCmds)

\* The submit of the command buffer; its command is reported as executed or
\* not.
CopyQueueSubmit ==
    \E n \in 0..1 :
        /\ ~crashed
        /\ nextId = Len(CopySetup) + 2
        /\ Step([QueueSubmitCmd(<<SubmitInfo(<<1>>, <<>>, <<>>)>>, 0)
                    EXCEPT !.executed = PassExecuted(n)], MaxCopyCmds)

NextCopy ==
    \/ CopyCreate
    \/ CopyRecord
    \/ CopyQueueSubmit

SpecCopy == Init /\ [][NextCopy]_vars

-----------------------------------------------------------------------------
(* Descriptor set traces: two sets are allocated and then updated *)

\* The layouts of the two sets of the traces (binding -> count): set 31 has
\* two bindings of two descriptors, set 32 one binding of two descriptors
\* and, after a gap, one of one descriptor.
SetLayouts ==
    <<[set |-> 31, layout |-> 35, bindings |-> (0 :> 2) @@ (1 :> 2)],
      [set |-> 32, layout |-> 36, bindings |-> (0 :> 2) @@ (2 :> 1)]>>

\* The i-th element of the arrays of a write: the elements differ in the
\* offset, the view and the sampler, so that descriptors can be told apart.
ImageInfoAt(i) == [imageView |-> 40 + i, sampler |-> 44 + i, image |-> 21]
BufferInfoAt(i) == [buffer |-> 12, offset |-> i - 1, range |-> 1]
TexelBufferViewAt(i) == [view |-> 48 + i, buffer |-> 12, offset |-> i - 1, range |-> 1]

WriteDescriptorSet(set, binding, elm, count, ty) ==
    [dstSet |-> set, dstBinding |-> binding, dstArrayElement |-> elm,
     descriptorCount |-> count, descriptorType |-> ty,
     imageInfo |-> [i \in 1..count |-> ImageInfoAt(i)],
     bufferInfo |-> [i \in 1..count |-> BufferInfoAt(i)],
     texelBufferView |-> [i \in 1..count |-> TexelBufferViewAt(i)]]

CopyDescriptorSet(src, srcBinding, srcElm, dst, dstBinding, dstElm, count) ==
    [srcSet |-> src, srcBinding |-> srcBinding, srcArrayElement |-> srcElm,
     dstSet |-> dst, dstBinding |-> dstBinding, dstArrayElement |-> dstElm,
     descriptorCount |-> count]

\* The type written to a binding.
TypeOfBinding(binding) ==
    IF binding = 0 THEN "UNIFORM_BUFFER_DYNAMIC" ELSE "COMBINED_IMAGE_SAMPLER"

DescWrites ==
    {WriteDescriptorSet(31, b, e, c, TypeOfBinding(b)) :
        b \in 0..1, e \in 0..MaxElm, c \in 1..2}
    \cup {WriteDescriptorSet(31, 1, 0, 1, ty) : ty \in {"STORAGE_TEXEL_BUFFER", "SAMPLER"}}

\* Copies from set 31, within the set or to set 32.
DescCopies ==
    {CopyDescriptorSet(31, 0, se, dst, 0, 1, c) :
        se \in 0..1, dst \in {31, 32}, c \in 1..2}

\* Copies of one descriptor inside set 31, which a payload can chain.
SlotCopies ==
    {CopyDescriptorSet(31, sb, 0, 31, 0, de, 1) : sb \in 0..1, de \in 0..1}

DescPayloads ==
    {[writes |-> <<w>>, copies |-> <<>>] : w \in DescWrites}
    \cup {[writes |-> <<>>, copies |-> <<c>>] : c \in DescCopies}
    \cup {[writes |-> <<>>, copies |-> <<c1, c2>>] : c1 \in SlotCopies, c2 \in SlotCopies}

DescSetup ==
    <<[type |-> "VkAllocateMemory", memory |-> 3, coherent |-> FALSE],
      [type |-> "VkBindBufferMemory", buffer |-> 12, memory |-> 3, size |-> 2,
       memoryOffset |-> 0],
      [type |-> "VkAllocateDescriptorSets", sets |-> SetLayouts]>>

DescCreate ==
    /\ ~crashed
    /\ nextId <= Len(DescSetup)
    /\ Step(DescSetup[nextId], MaxDescCmds)

DescUpdate ==
    \E p \in DescPayloads :
        /\ ~crashed
        /\ nextId > Len(DescSetup)
        /\ Step([type |-> "VkUpdateDescriptorSets", writes |-> p.writes,
                 copies |-> p.copies], MaxDescCmds)

NextDesc ==
    \/ DescCreate
    \/ DescUpdate

SpecDesc == Init /\ [][NextDesc]_vars

-----------------------------------------------------------------------------
(* Traces that use a bound descriptor set: set 31 is written, bound in      *)
(* command buffer 1 and used by a dispatch, or by a draw inside a render    *)
(* pass; the memory 3 behind buffer 12 has one recorded span for each of    *)
(* its five bytes.                                                          *)

UseSetup ==
    <<[type |-> "VkGetSwapchainImagesKHR", swapchain |-> 13, images |-> <<21, 22, 23, 24>>],
      [type |-> "VkAllocateMemory", memory |-> 3, coherent |-> FALSE],
      [type |-> "VkBindBufferMemory", buffer |-> 12, memory |-> 3, size |-> 5,
       memoryOffset |-> 0],
      [type |-> "VkFlushMappedMemoryRanges",
       ranges |-> [i \in 1..5 |-> [memory |-> 3, offset |-> i - 1, size |-> 1]],
       observations |-> <<>>],
      [type |-> "VkCreateEvent", event |-> 9],
      [type |-> "VkAllocateCommandBuffers", commandBuffers |-> <<1>>],
      [type |-> "VkAllocateDescriptorSets",
       sets |-> <<[set |-> 31, layout |-> 35, bindings |-> (0 :> 2) @@ (1 :> 1)]>>]>>

DynamicTypes == {"UNIFORM_BUFFER_DYNAMIC", "STORAGE_BUFFER_DYNAMIC"}

\* The writes of an update: descriptors of one type from an element of
\* binding 0 on, or two descriptors of binding 0 and one of binding 1.
UseWrites ==
    {<<WriteDescriptorSet(31, 0, e, c, ty)>> :
        e \in 0..1, c \in 1..2, ty \in DynamicTypes \cup {"UNIFORM_BUFFER"}}
    \cup {<<WriteDescriptorSet(31, 0, 0, 2, t1), WriteDescriptorSet(31, 1, 0, 1, t2)>> :
            t1 \in DynamicTypes, t2 \in DynamicTypes}

\* The dynamic offsets of the bind.
UseOffsets == {<<>>, <<1>>, <<1, 0>>, <<0, 2>>, <<2, 1, 0>>}

\* The orders in which a range statement can visit the keys 0..MaxKey.
Orders ==
    {o \in [1..MaxKey + 1 -> 0..MaxKey] : \A i, j \in 1..MaxKey + 1 : o[i] = o[j] => i = j}

\* One command of a trace, the maps being visited in the order given.
StepIn(cmd, max, order) ==
    /\ nextId <= max
    /\ Commit(BuildFootprint([State EXCEPT !.order = order], cmd))

\* The commands of the command buffer that have run.
UseRan == \E n \in 1..Len(ran) : cbcs[ran[n].cmd].behave \in {"dispatch", "draw"}

UseCreate ==
    /\ ~crashed
    /\ nextId <= Len(UseSetup)
    /\ Step(UseSetup[nextId], MaxUseCmds)

\* An update before the commands are recorded, or between the submit and
\* the event that lets the rest of the command buffer run.
UseUpdateDescriptorSets ==
    \E ws \in UseWrites :
        /\ ~crashed
        /\ \/ nextId = Len(UseSetup) + 1
           \/ Recorded("VkQueueSubmit") # {} /\ Recorded("VkSetEvent") = {} /\ ~UseRan
              /\ trace[Len(trace)].type = "VkQueueSubmit"
        /\ Step([type |-> "VkUpdateDescriptorSets", writes |-> ws, copies |-> <<>>],
                MaxUseCmds)

UseCmdBeginRenderPass ==
    /\ ~crashed
    /\ nextId = Len(UseSetup) + 2
    /\ Step([type |-> "VkCmdBeginRenderPass", commandBuffer |-> 1,
             rp |-> [handle |-> 30,
                     attachments |-> [ai \in 0..3 |->
                         [loadOp |-> "LOAD", stencilLoadOp |-> "LOAD",
                          storeOp |-> "STORE", stencilStoreOp |-> "STORE"]],
                     subpasses |-> <<SubpassDescription(<<0>>, <<>>, <<>>, <<>>)>>],
             fb |-> [handle |-> 31, renderPass |-> 30, width |-> 1, height |-> 1,
                     layers |-> 1,
                     attachments |-> [ai \in 0..3 |-> ImageView(ai, TRUE)]]],
            MaxUseCmds)

UseCmdBindDescriptorSets ==
    \E offsets \in UseOffsets :
        /\ ~crashed
        /\ nextId > Len(UseSetup) + 1
        /\ Recorded("VkCmdBindDescriptorSets") = {}
        /\ Step([type |-> "VkCmdBindDescriptorSets", commandBuffer |-> 1, layout |-> 37,
                 firstSet |-> 0, descriptorSets |-> <<31>>, dynamicOffsets |-> offsets],
                MaxUseCmds)

UseCmdDispatch ==
    /\ ~crashed
    /\ Recorded("VkCmdBindDescriptorSets") # {}
    /\ Recorded("VkCmdBeginRenderPass") = {}
    /\ Recorded("VkCmdDispatch") = {}
    /\ Step([type |-> "VkCmdDispatch", commandBuffer |-> 1], MaxUseCmds)

UseCmdDraw ==
    /\ ~crashed
    /\ Recorded("VkCmdBindDescriptorSets") # {}
    /\ Recorded("VkCmdBeginRenderPass") # {}
    /\ Recorded("VkCmdDraw") = {}
    /\ Step([type |-> "VkCmdDraw", commandBuffer |-> 1], MaxUseCmds)

\* The submit of the command buffer: the collaborator reports the first n
\* commands as executed.
UseQueueSubmit ==
    \E n \in 1..3 : \E order \in Orders :
        /\ ~crashed
        /\ Recorded("VkCmdDispatch") \cup Recorded("VkCmdDraw") # {}
        /\ Recorded("VkQueueSubmit") = {}
        /\ n <= Len(commandsOf(State, 1))
        /\ StepIn([QueueSubmitCmd(<<SubmitInfo(<<1>>, <<>>, <<>>)>>, 0)
                      EXCEPT !.executed = PassExecuted(n)], MaxUseCmds, order)

\* The event at which the collaborator reports the rest of the commands as
\* executed.
UseSetEvent ==
    \E order \in Orders :
        /\ ~crashed
        /\ Recorded("VkQueueSubmit") # {}
        /\ Recorded("VkSetEvent") = {}
        /\ ~UseRan
        /\ StepIn([type |-> "VkSetEvent", event |-> 9, observations |-> <<>>,
                   executed |->
                       [i \in 1..(Len(commandsOf(State, 1)) - Len(ran)) |->
                           <<Min(Recorded("VkQueueSubmit")), 0, 0, Len(ran) + i - 1>>]],
                  MaxUseCmds, order)

NextUse ==
    \/ UseCreate
    \/ UseUpdateDescriptorSets
    \/ UseCmdBeginRenderPass
    \/ UseCmdBindDescriptorSets
    \/ UseCmdDispatch
    \/ UseCmdDraw
    \/ UseQueueSubmit
    \/ UseSetEvent

SpecUse == Init /\ [][NextUse]_vars

-----------------------------------------------------------------------------
(* Traces of two submits chained by a semaphore                            *)
(* Command buffer 1 is submitted first and signals semaphore 4; command    *)
(* buffer 2, which draws in a render pass, is submitted after it, waits    *)
(* for semaphore 4 and signals fence 5.                                    *)

ChainSetup ==
    <<[type |-> "VkGetSwapchainImagesKHR", swapchain |-> 13, images |-> <<21, 22, 23, 24>>],
      [type |-> "VkCreateSemaphore", semaphore |-> 4],
      [type |-> "VkCreateFence", fence |-> 5],
      [type |-> "VkAllocateCommandBuffers", commandBuffers |-> <<1, 2>>]>>

\* The submit whose signal fence is f.
SubmitWithFence(f) == {i \in Recorded("VkQueueSubmit") : trace[i].fence = f}

\* Every pending command of the submits with fence f was rolled out.
Drained(f) ==
    /\ SubmitWithFence(f) # {}
    /\ \A i \in SubmitWithFence(f) : submitInfos[i].pendingCommands = <<>>

ChainCreate ==
    /\ ~crashed
    /\ nextId <= Len(ChainSetup)
    /\ Step(ChainSetup[nextId], MaxChainCmds)

\* The commands of the first command buffer.
ChainRecord ==
    \E ty \in {"VkCmdSetLineWidth", "VkCmdDispatch"} :
        /\ ~crashed
        /\ nextId > Len(ChainSetup)
        /\ Recorded("VkQueueSubmit") = {}
        /\ Len(commandsOf(State, 1)) < 2
        /\ Step([type |-> ty, commandBuffer |-> 1], MaxChainCmds)

ChainCmdBeginRenderPass ==
    /\ ~crashed
    /\ nextId > Len(ChainSetup)
    /\ Recorded("VkCmdBeginRenderPass") = {}
    /\ Step([type |-> "VkCmdBeginRenderPass", commandBuffer |-> 2,
             rp |-> [handle |-> 30,
                     attachments |-> [ai \in 0..3 |->
                         [loadOp |-> "LOAD", stencilLoadOp |-> "LOAD",
                          storeOp |-> "STORE", stencilStoreOp |-> "STORE"]],
                     subpasses |-> <<SubpassDescription(<<0>>, <<>>, <<>>, <<>>)>>],
             fb |-> [handle |-> 31, renderPass |-> 30, width |-> 1, height |-> 1,
                     layers |-> 1,
                     attachments |-> [ai \in 0..3 |-> ImageView(ai, TRUE)]]],
            MaxChainCmds)

ChainCmdDraw ==
    /\ ~crashed
    /\ Recorded("VkCmdBeginRenderPass") # {}
    /\ Recorded("VkCmdDraw") = {}
    /\ Step([type |-> "VkCmdDraw", commandBuffer |-> 2], MaxChainCmds)

ChainCmdEndRenderPass ==
    /\ ~crashed
    /\ Recorded("VkCmdDraw") # {}
    /\ Recorded("VkCmdEndRenderPass") = {}
    /\ SubmitWithFence(5) = {}
    /\ Step([type |-> "VkCmdEndRenderPass", commandBuffer |-> 2], MaxChainCmds)

\* The first submit: the collaborator reports its first n commands as
\* executed.
ChainSubmitFirst ==
    \E n \in 1..2 :
        /\ ~crashed
        /\ Recorded("VkQueueSubmit") = {}
        /\ n <= Len(commandsOf(State, 1))
        /\ Step([QueueSubmitCmd(<<SubmitInfo(<<1>>, <<>>, <<4>>)>>, 0)
                    EXCEPT !.executed = PassExecuted(n)], MaxChainCmds)

\* The second submit, none of whose commands executes before the first
\* submit has signalled the semaphore.
ChainSubmitSecond ==
    \E n \in 0..3 :
        /\ ~crashed
        /\ SubmitWithFence(0) # {}
        /\ SubmitWithFence(5) = {}
        /\ Recorded("VkCmdDraw") # {}
        /\ n <= Len(commandsOf(State, 2))
        /\ n > 0 => Drained(0)
        /\ Step([QueueSubmitCmd(<<SubmitInfo(<<2>>, <<4>>, <<>>)>>, 5)
                    EXCEPT !.executed = PassExecuted(n)], MaxChainCmds)

NextChain ==
    \/ ChainCreate
    \/ ChainRecord
    \/ ChainCmdBeginRenderPass
    \/ ChainCmdDraw
    \/ ChainCmdEndRenderPass
    \/ ChainSubmitFirst
    \/ ChainSubmitSecond

SpecChain == Init /\ [][NextChain]_vars

-----------------------------------------------------------------------------
(* Two builders, each building the footprint of its own trace              *)
(* The variables hold the first builder and the record other the second.   *)
(* A call of BuildFootprint runs to its end before the next one begins.    *)

\* The fields of a builder after a call: the locals of the handler are gone,
\* and nextLabelVal is not a field.
fieldsOf(r) ==
    [r EXCEPT !.cur = <<>>, !.ret = TRUE, !.cbc = 0, !.stop = FALSE, !.sub = <<>>,
              !.data = <<>>, !.nobh = FALSE, !.fbData = <<>>,
              !.attLoadSubpass = <<>>, !.attStoreSubpass = <<>>,
              !.attStoreAttInfo = <<>>, !.modified = <<>>, !.doi = 0,
              !.bds = <<>>, !.nextLabelVal = 0]

\* The commands a trace can go on with after the commands builder b has seen.
PairCommands(b) ==
    {c \in {[type |-> "VkCreateSemaphore", semaphore |-> 4],
            [type |-> "VkCreateFence", fence |-> 5],
            [type |-> "VkAllocateCommandBuffers", commandBuffers |-> <<1>>],
            [type |-> "VkCmdSetLineWidth", commandBuffer |-> 1]} :
        /\ c.type = "VkCreateSemaphore" => 4 \notin DOMAIN b.semaphoreSignals
        /\ c.type = "VkCreateFence" => 5 \notin DOMAIN b.fences
        /\ c.type = "VkAllocateCommandBuffers" => 1 \notin DOMAIN b.commandBuffers
        /\ c.type = "VkCmdSetLineWidth" => 1 \in DOMAIN b.commandBuffers}

\* BuildFootprint of the second builder: the package variable is the one the
\* first builder uses.
otherBuilt(s, r) ==
    [s EXCEPT !.other = fieldsOf(r), !.nextLabelVal = r.nextLabelVal]
BuildOther(s, cmd) ==
    otherBuilt(s, BuildFootprint([s.other EXCEPT !.nextLabelVal = s.nextLabelVal], cmd))

\* newFootprintBuilder() for the second trace.
PairNew ==
    /\ other = <<>>
    /\ Commit([State EXCEPT !.other = newFootprintBuilder])

PairFirst ==
    \E cmd \in PairCommands(State) :
        /\ ~crashed
        /\ Step(cmd, MaxPairCmds)

PairSecond ==
    /\ other # <<>>
    /\ \E cmd \in PairCommands(other) :
           /\ ~other.crashed
           /\ other.nextId <= MaxPairCmds
           /\ Commit(BuildOther(State, cmd))

NextPair ==
    \/ PairNew
    \/ PairFirst
    \/ PairSecond

SpecPair == Init /\ [][NextPair]_vars

-----------------------------------------------------------------------------
(* Traces with submits that hold no command                                *)
(* 4 and 6 are semaphores, 5 is a fence, 1 a command buffer.               *)

EmptyCreateSemaphore ==
    \E sp \in {4, 6} :
        /\ ~crashed
        /\ sp \notin DOMAIN semaphoreSignals
        /\ Step([type |-> "VkCreateSemaphore", semaphore |-> sp], MaxEmptyCmds)

EmptyCreateFence ==
    /\ ~crashed
    /\ 5 \notin DOMAIN fences
    /\ Step([type |-> "VkCreateFence", fence |-> 5], MaxEmptyCmds)

EmptyAllocateCommandBuffers ==
    /\ ~crashed
    /\ 1 \notin DOMAIN commandBuffers
    /\ Step([type |-> "VkAllocateCommandBuffers", commandBuffers |-> <<1>>], MaxEmptyCmds)

EmptyCmdSetLineWidth ==
    /\ ~crashed
    /\ 1 \in DOMAIN commandBuffers
    /\ commandsOf(State, 1) = <<>>
    /\ Step([type |-> "VkCmdSetLineWidth", commandBuffer |-> 1], MaxEmptyCmds)

\* Submits without a batch, with a batch without command buffers and with a
\* batch of one command buffer; a batch waits for semaphore 4 and signals
\* semaphore 6; 0 is the null handle of the fence.
EmptySubmits ==
    {QueueSubmitCmd(submits, f) :
        submits \in {<<>>, <<SubmitInfo(<<>>, <<4>>, <<6>>)>>,
                     <<SubmitInfo(<<1>>, <<4>>, <<6>>)>>,
                     <<SubmitInfo(<<>>, <<>>, <<6>>)>>},
        f \in {0, 5}}

EmptyQueueSubmit ==
    \E cmd \in EmptySubmits :
        \E ex \in ExecutedLists(BuildTop(State, cmd), FALSE) :
            /\ ~crashed
            /\ cmd.fence # 0 => cmd.fence \in DOMAIN fences
            /\ Step([cmd EXCEPT !.executed = ex], MaxEmptyCmds)

NextEmpty ==
    \/ EmptyCreateSemaphore
    \/ EmptyCreateFence
    \/ EmptyAllocateCommandBuffers
    \/ EmptyCmdSetLineWidth
    \/ EmptyQueueSubmit

SpecEmpty == Init /\ [][NextEmpty]_vars

-----------------------------------------------------------------------------
(* Traces with an indexed draw                                             *)
(* Buffer 12 is bound to memory 3, which has one recorded span for each of *)
(* its bytes; command buffer 1 begins a render pass, binds the buffer as   *)
(* index buffer and draws indexed.                                         *)

IndexSetup ==
    <<[type |-> "VkGetSwapchainImagesKHR", swapchain |-> 13, images |-> <<21, 22, 23, 24>>],
      [type |-> "VkAllocateMemory", memory |-> 3, coherent |-> FALSE],
      [type |-> "VkBindBufferMemory", buffer |-> 12, memory |-> 3,
       size |-> IndexBufferSize, memoryOffset |-> 0],
      [type |-> "VkFlushMappedMemoryRanges",
       ranges |-> [i \in 1..IndexBufferSize |-> [memory |-> 3, offset |-> i - 1, size |-> 1]],
       observations |-> <<>>],
      [type |-> "VkAllocateCommandBuffers", commandBuffers |-> <<1>>]>>

IndexCreate ==
    /\ ~crashed
    /\ nextId <= Len(IndexSetup)
    /\ Step(IndexSetup[nextId], MaxIndexCmds)

IndexCmdBeginRenderPass ==
    /\ ~crashed
    /\ nextId = Len(IndexSetup) + 1
    /\ Step([type |-> "VkCmdBeginRenderPass", commandBuffer |-> 1,
             rp |-> [handle |-> 30,
                     attachments |-> [ai \in 0..3 |->
                         [loadOp |-> "LOAD", stencilLoadOp |-> "LOAD",
                          storeOp |-> "STORE", stencilStoreOp |-> "STORE"]],
                     subpasses |-> <<SubpassDescription(<<0>>, <<>>, <<>>, <<>>)>>],
             fb |-> [handle |-> 31, renderPass |-> 30, width |-> 1, height |-> 1,
                     layers |-> 1,
                     attachments |-> [ai \in 0..3 |-> ImageView(ai, TRUE)]]],
            MaxIndexCmds)

\* The offset of the bind is a multiple of the size of an index.
IndexCmdBindIndexBuffer ==
    \E ty \in {"UINT16", "UINT32"} :
        \E o \in {x \in 0..MaxIndexOffset : x % indexSize(ty) = 0} :
            /\ ~crashed
            /\ nextId = Len(IndexSetup) + 2
            /\ Step([type |-> "VkCmdBindIndexBuffer", commandBuffer |-> 1, buffer |-> 12,
                     offset |-> o, indexType |-> ty], MaxIndexCmds)

\* The indices the draw fetches are inside the buffer.
IndexCmdDrawIndexed ==
    \E f \in 0..MaxIndexCount, n \in 1..MaxIndexCount :
        /\ ~crashed
        /\ nextId > Len(IndexSetup) + 2
        /\ Cardinality(Recorded("VkCmdDrawIndexed")) < 2
        /\ Recorded("VkQueueSubmit") = {}
        /\ trace[Len(IndexSetup) + 2].offset
               + (f + n) * indexSize(trace[Len(IndexSetup) + 2].indexType)
               <= IndexBufferSize
        /\ Step([type |-> "VkCmdDrawIndexed", commandBuffer |-> 1, firstIndex |-> f,
                 indexCount |-> n], MaxIndexCmds)

IndexQueueSubmit ==
    \E n \in 1..4 :
        /\ ~crashed
        /\ Recorded("VkCmdDrawIndexed") # {}
        /\ Recorded("VkQueueSubmit") = {}
        /\ n <= Len(commandsOf(State, 1))
        /\ StepIn([QueueSubmitCmd(<<SubmitInfo(<<1>>, <<>>, <<>>)>>, 0)
                      EXCEPT !.executed = PassExecuted(n)], MaxIndexCmds,
                  [i \in 1..MaxKey + 1 |-> i - 1])

NextIndex ==
    \/ IndexCreate
    \/ IndexCmdBeginRenderPass
    \/ IndexCmdBindIndexBuffer
    \/ IndexCmdDrawIndexed
    \/ IndexQueueSubmit

SpecIndex == Init /\ [][NextIndex]_vars

-----------------------------------------------------------------------------
(* Traces whose submits execute one command at a time                      *)
(* Command buffers 1 and 2 are primary, 3 is secondary and executed from   *)
(* command buffer 1.  The submits execute nothing when they are built; every*)
(* VkSetEvent after them reports the next pending command as executed, the *)
(* submits of the queue in their order.                                    *)

ExecSetup ==
    <<[type |-> "VkAllocateMemory", memory |-> 3, coherent |-> FALSE],
      [type |-> "VkBindBufferMemory", buffer |-> 12, memory |-> 3, size |-> 4,
       memoryOffset |-> 0],
      [type |-> "VkCreateEvent", event |-> 9],
      [type |-> "VkAllocateCommandBuffers", commandBuffers |-> <<1, 2, 3>>],
      [type |-> "VkAllocateDescriptorSets",
       sets |-> <<[set |-> 31, layout |-> 35, bindings |-> (0 :> 1)]>>]>>

\* The commands that change the state of the command buffer they run in,
\* and one that does not.
ExecBinds(cb) ==
    {[type |-> "VkCmdBindIndexBuffer", commandBuffer |-> cb, buffer |-> 12, offset |-> 0,
      indexType |-> "UINT16"],
     [type |-> "VkCmdBindDescriptorSets", commandBuffer |-> cb, layout |-> 37,
      firstSet |-> 0, descriptorSets |-> <<31>>, dynamicOffsets |-> <<>>],
     [type |-> "VkCmdSetLineWidth", commandBuffer |-> cb]}

ExecCreate ==
    /\ ~crashed
    /\ nextId <= Len(ExecSetup)
    /\ Step(ExecSetup[nextId], MaxExecCmds)

\* The command of the secondary command buffer, then the first command of
\* command buffer 1.
ExecRecordBind ==
    \E cmd \in ExecBinds(IF nextId = Len(ExecSetup) + 1 THEN 3 ELSE 1) :
        /\ ~crashed
        /\ nextId \in {Len(ExecSetup) + 1, Len(ExecSetup) + 2}
        /\ Step(cmd, MaxExecCmds)

ExecCmdExecuteCommands ==
    \E scbs \in {<<3>>, <<3, 3>>} :
        /\ ~crashed
        /\ nextId = Len(ExecSetup) + 3
        /\ Step([type |-> "VkCmdExecuteCommands", commandBuffer |-> 1,
                 secondaries |-> scbs], MaxExecCmds)

\* The last command of command buffer 1, then the command of command buffer 2.
ExecCmdSetLineWidth ==
    /\ ~crashed
    /\ nextId \in {Len(ExecSetup) + 4, Len(ExecSetup) + 5}
    /\ Step([type |-> "VkCmdSetLineWidth",
             commandBuffer |-> IF nextId = Len(ExecSetup) + 4 THEN 1 ELSE 2], MaxExecCmds)

\* The submits: both command buffers in one batch or in two, command buffer 1
\* alone, and command buffer 2 before command buffer 1.
ExecSubmits ==
    {QueueSubmitCmd(submits, 0) :
        submits \in {<<SubmitInfo(<<1, 2>>, <<>>, <<>>)>>,
                     <<SubmitInfo(<<1>>, <<>>, <<>>), SubmitInfo(<<2>>, <<>>, <<>>)>>,
                     <<SubmitInfo(<<1>>, <<>>, <<>>)>>,
                     <<SubmitInfo(<<2, 1>>, <<>>, <<>>)>>}}

ExecQueueSubmit ==
    \E cmd \in ExecSubmits :
        /\ ~crashed
        /\ nextId > Len(ExecSetup) + 5
        /\ Cardinality(Recorded("VkQueueSubmit")) < 2
        /\ Step(cmd, MaxExecCmds)

\* The submits that have pending commands.
ExecPending == {i \in DOMAIN submitInfos : submitInfos[i].pendingCommands # <<>>}

ExecSetEvent ==
    /\ ~crashed
    /\ ExecPending # {}
    /\ Step([type |-> "VkSetEvent", event |-> 9, observations |-> <<>>,
             executed |-> <<submitInfos[Min(ExecPending)].pendingCommands[1].id>>],
            MaxExecCmds)

NextExec ==
    \/ ExecCreate
    \/ ExecRecordBind
    \/ ExecCmdExecuteCommands
    \/ ExecCmdSetLineWidth
    \/ ExecQueueSubmit
    \/ ExecSetEvent

SpecExec == Init /\ [][NextExec]_vars

-----------------------------------------------------------------------------
(* Traces that touch a command buffer between its submit and its execution *)
(* Command buffer 1 is primary and executes the secondary command buffer 2.*)
(* The submit executes nothing when it is built; every VkSetEvent after it *)
(* reports the next pending command as executed.                           *)

SnapSetup ==
    <<[type |-> "VkCreateEvent", event |-> 9],
      [type |-> "VkAllocateCommandBuffers", commandBuffers |-> <<1, 2>>],
      [type |-> "VkCmdSetLineWidth", commandBuffer |-> 2],
      [type |-> "VkCmdExecuteCommands", commandBuffer |-> 1, secondaries |-> <<2>>],
      [type |-> "VkCmdSetLineWidth", commandBuffer |-> 1],
      QueueSubmitCmd(<<SubmitInfo(<<1>>, <<>>, <<>>)>>, 0)>>

\* What the trace does to a command buffer after the submit.
SnapTouches(cb) ==
    {[type |-> "VkBeginCommandBuffer", commandBuffer |-> cb],
     [type |-> "VkResetCommandBuffer", commandBuffer |-> cb],
     [type |-> "VkFreeCommandBuffers", commandBuffers |-> <<cb>>],
     [type |-> "VkCmdSetLineWidth", commandBuffer |-> cb]}

SnapCreate ==
    /\ ~crashed
    /\ nextId <= Len(SnapSetup)
    /\ Step(SnapSetup[nextId], MaxSnapCmds)

SnapTouch ==
    \E cb \in {1, 2} : \E cmd \in SnapTouches(cb) :
        /\ ~crashed
        /\ nextId > Len(SnapSetup)
        /\ Step(cmd, MaxSnapCmds)

\* A second submit of command buffer 1, as it is by then.
SnapQueueSubmit ==
    /\ ~crashed
    /\ nextId > Len(SnapSetup)
    /\ Cardinality(Recorded("VkQueueSubmit")) < 2
    /\ Step(QueueSubmitCmd(<<SubmitInfo(<<1>>, <<>>, <<>>)>>, 0), MaxSnapCmds)

SnapPending == {i \in DOMAIN submitInfos : submitInfos[i].pendingCommands # <<>>}

SnapSetEvent ==
    /\ ~crashed
    /\ SnapPending # {}
    /\ Step([type |-> "VkSetEvent", event |-> 9, observations |-> <<>>,
             executed |-> <<submitInfos[Min(SnapPending)].pendingCommands[1].id>>],
            MaxSnapCmds)

NextSnap ==
    \/ SnapCreate
    \/ SnapTouch
    \/ SnapQueueSubmit
    \/ SnapSetEvent

SpecSnap == Init /\ [][NextSnap]_vars

-----------------------------------------------------------------------------
(* Traces that allocate, map, unmap and free device memory                 *)
(* 3 and 6 are memories, mapped at the addresses 1 and 4 (Mappings); 6 is  *)
(* always coherent.  A memory that is freed while it is mapped is unmapped *)
(* by the driver.                                                          *)

\* The memory is mapped for the driver: its last VkMapMemory has neither a
\* VkUnmapMemory nor a VkFreeMemory after it.
MappedNow(vkMem) ==
    \E p \in 1..Len(trace) :
        /\ trace[p].type = "VkMapMemory" /\ trace[p].memory = vkMem
        /\ \A q \in (p + 1)..Len(trace) :
              ~(trace[q].type \in {"VkUnmapMemory", "VkFreeMemory"}
                /\ trace[q].memory = vkMem)

FreedAllocateMemory ==
    \E vkMem \in {3, 6}, c \in BOOLEAN :
        /\ ~crashed
        /\ vkMem \notin DOMAIN DeviceMemories
        /\ vkMem = 6 => c
        /\ Step([type |-> "VkAllocateMemory", memory |-> vkMem, coherent |-> c],
                MaxFreedCmds)

FreedMapMemory ==
    \E vkMem \in DOMAIN DeviceMemories :
        \E mp \in Mappings(vkMem) :
            /\ ~crashed
            /\ ~MappedNow(vkMem)
            /\ Step([type |-> "VkMapMemory", memory |-> vkMem, offset |-> mp.offset,
                     size |-> mp.size, address |-> mp.address], MaxFreedCmds)

FreedUnmapMemory ==
    \E vkMem \in DOMAIN DeviceMemories :
        /\ ~crashed
        /\ MappedNow(vkMem)
        /\ Step([type |-> "VkUnmapMemory", memory |-> vkMem,
                 observations |-> <<[base |-> 0, size |-> 6]>>], MaxFreedCmds)

FreedFreeMemory ==
    \E vkMem \in DOMAIN DeviceMemories :
        /\ ~crashed
        /\ Step([type |-> "VkFreeMemory", memory |-> vkMem], MaxFreedCmds)

\* A submit without command buffers, whose observations cover the addresses
\* of both mappings.
FreedQueueSubmit ==
    /\ ~crashed
    /\ DOMAIN DeviceMemories # {}
    /\ trace[Len(trace)].type # "VkQueueSubmit"
    /\ Step([QueueSubmitCmd(<<SubmitInfo(<<>>, <<>>, <<>>)>>, 0)
                EXCEPT !.observations = <<[base |-> 0, size |-> 6]>>], MaxFreedCmds)

NextFreed ==
    \/ FreedAllocateMemory
    \/ FreedMapMemory
    \/ FreedUnmapMemory
    \/ FreedFreeMemory
    \/ FreedQueueSubmit

SpecFreed == Init /\ [][NextFreed]_vars

-----------------------------------------------------------------------------
(* Properties of the rollout *)

\* The positions in the footprint of the behaviours of one submit that were
\* created at one place of the rollout.
BehavioursOf(id, role) ==
    {n \in 1..Len(ft) : ft[n].role = role /\ ft[n].idx[1] = id}

\* The submitted commands of a submit whose behave closure was invoked, in
\* the order of the invocations, and the divergences logged for the submit.
RanOf(id) == SelectSeq(ran, LAMBDA sc : sc.id[1] = id)
LogsOf(id) == SelectSeq(logs, LAMBDA e : e.executed[1] = id)
RanIds == {ran[n].id : n \in 1..Len(ran)}

\* The behaviours of the submitted commands of a submit, in footprint order.
SubcommandBehaviours(id) ==
    SelectSeq(ft, LAMBDA b : b.role = "subcommand" /\ b.idx[1] = id)

\* C1: the commands of a submit whose closure was invoked, followed by the
\* commands still pending, are the list the submit was queued with: closures
\* run in submission order (FIFO), each rolled-out head is removed, none runs
\* twice and none is skipped; every invocation stamped one behaviour, in the
\* same order.
C1_FifoRollOut ==
    \A id \in DOMAIN submitInfos :
        /\ submitInfos[id].submitted = RanOf(id) \o submitInfos[id].pendingCommands
        /\ Len(SubcommandBehaviours(id)) = Len(RanOf(id))
        /\ \A k \in 1..Len(RanOf(id)) :
               SubcommandBehaviours(id)[k].idx = submitInfos[id].submitted[k].id

\* Two commands of one submit were rolled out and its pending list is empty.
C1_Witness ==
    \E id \in DOMAIN submitInfos :
        /\ Len(RanOf(id)) >= 2
        /\ submitInfos[id].pendingCommands = <<>>

\* C2: for every submit, either no divergence was logged, or it was logged
\* exactly once and no closure of the submit was invoked after the log.
C2_LoggedOnceThenHalted ==
    \A id \in DOMAIN submitInfos :
        \/ LogsOf(id) = <<>>
        \/ /\ Len(LogsOf(id)) = 1
           /\ \A n \in 1..Len(ran) :
                  ran[n].id[1] = id => n <= LogsOf(id)[1].ranBefore

\* The executed subcommand is the next one of its submit in submission order:
\* every command submitted before it was rolled out.
InSubmissionOrder(e) ==
    /\ e[1] \in DOMAIN submitInfos
    /\ \E m \in 1..Len(submitInfos[e[1]].submitted) :
           /\ submitInfos[e[1]].submitted[m].id = e
           /\ \A n \in 1..(m - 1) : submitInfos[e[1]].submitted[n].id \in RanIds

\* C3: when the executed list of the last command diverged for one submit,
\* the in-order subcommands of the other submits later in the list were
\* rolled out all the same.
C3_OtherSubmitsRolledOut ==
    (Len(trace) > 0 /\ "executed" \in DOMAIN trace[Len(trace)]) =>
        LET ex == trace[Len(trace)].executed
        IN \A p \in 1..Len(ex), q \in 1..Len(ex) :
               (/\ p < q
                /\ ex[p][1] # ex[q][1]
                /\ \E n \in 1..Len(logs) :
                       logs[n].at = Len(trace) /\ logs[n].executed = ex[p]
                /\ InSubmissionOrder(ex[q]))
               => ex[q] \in RanIds

-----------------------------------------------------------------------------
(* Properties of the began and the terminal behaviour of a submit *)

\* C4: a submit has exactly one began behaviour when its began flag is set and
\* none while it is clear; the flag is set once a reported subcommand of the
\* submit was processed; the began behaviour precedes every subcommand
\* behaviour and the terminal behaviour of the submit; it reads the handle of
\* every wait semaphore of the submit and reads then writes its signal label.
C4_BeganOnce ==
    \A id \in DOMAIN submitInfos :
        LET sps == submitInfos[id].waitSemaphores
        IN /\ Cardinality(BehavioursOf(id, "began")) =
                  (IF submitInfos[id].began THEN 1 ELSE 0)
           /\ (RanOf(id) # <<>> \/ LogsOf(id) # <<>>) => submitInfos[id].began
           /\ \A n \in BehavioursOf(id, "began") :
                  /\ \A m \in BehavioursOf(id, "subcommand") \cup BehavioursOf(id, "done") :
                         n < m
                  /\ \A i \in 1..Len(sps) : sps[i] # 0
                  /\ ft[n].reads =
                         Flatten([i \in 1..Len(sps) |->
                                    <<toVkHandle(sps[i]), Label(semaphoreSignals[sps[i]])>>])
                  /\ ft[n].writes =
                         [i \in 1..Len(sps) |-> Label(semaphoreSignals[sps[i]])]

\* A submit that waits for a semaphore has begun and one of its commands was
\* rolled out.
C4_Witness ==
    \E id \in DOMAIN submitInfos :
        /\ submitInfos[id].began
        /\ submitInfos[id].waitSemaphores # <<>>
        /\ RanOf(id) # <<>>

\* C5: a submit has at most one terminal behaviour, and has it exactly when
\* its pending list was emptied by the rollout; the terminal behaviour reads
\* the queued label and the handles of the signal semaphores and of the
\* non-null fence, writes the done label, the signal label of every signal
\* semaphore and the signal label of the non-null fence, and comes after the
\* began behaviour and every subcommand behaviour of the submit.
C5_TerminalBehaviour ==
    \A id \in DOMAIN submitInfos :
        LET info == submitInfos[id]
            sps == info.signalSemaphores
        IN /\ Cardinality(BehavioursOf(id, "done")) =
                  (IF info.pendingCommands = <<>> /\ RanOf(id) # <<>> THEN 1 ELSE 0)
           /\ \A n \in BehavioursOf(id, "done") :
                  /\ \A m \in BehavioursOf(id, "subcommand") \cup BehavioursOf(id, "began") :
                         m < n
                  /\ ft[n].reads =
                         <<Label(info.queued)>>
                         \o [i \in 1..Len(sps) |-> toVkHandle(sps[i])]
                         \o (IF info.signalFence # 0
                             THEN <<toVkHandle(info.signalFence)>> ELSE <<>>)
                  /\ ft[n].writes =
                         <<Label(info.done)>>
                         \o [i \in 1..Len(sps) |-> Label(semaphoreSignals[sps[i]])]
                         \o (IF info.signalFence # 0
                             THEN <<Label(fences[info.signalFence].signal)>> ELSE <<>>)

\* A submit that signals a semaphore and a fence has its terminal behaviour.
C5_Witness ==
    \E id \in DOMAIN submitInfos :
        /\ BehavioursOf(id, "done") # {}
        /\ submitInfos[id].signalSemaphores # <<>>
        /\ submitInfos[id].signalFence # 0

\* A submit whose rollout diverged before its last command has no terminal
\* behaviour.
C5_WitnessAborted ==
    \E id \in DOMAIN submitInfos :
        /\ LogsOf(id) # <<>>
        /\ RanOf(id) # <<>>
        /\ BehavioursOf(id, "done") = {}

-----------------------------------------------------------------------------
(* Properties of the pending list built at VkQueueSubmit *)

\* The last command is a VkQueueSubmit whose handler ran to its end.
SubmitBuilt ==
    /\ ~crashed
    /\ Len(trace) > 0
    /\ trace[Len(trace)].type = "VkQueueSubmit"

\* The recorded commands of a command buffer, none for an unknown one.
RecordedIn(cb) == IF cb \in DOMAIN commands THEN commands[cb] ELSE <<>>

AllOf(list) == list
\* The command buffers of a list before the first one the builder has no
\* shadow entry for.
UpToUnknown(list) ==
    SubSeq(list, 1, Min({n \in 1..Len(list) : list[n] \notin DOMAIN commandBuffers}
                        \cup {Len(list) + 1}) - 1)

\* The entries of the pending list of submit id: one per recorded command of
\* the command buffers Taken of every batch, and for a CmdExecuteCommands one
\* per recorded command of its secondary command buffers Taken.
SecondaryEntries(fci, c, Taken(_)) ==
    LET scbs == Taken(cbcs[c].secondaryCommandBuffers)
    IN UNION {{[id |-> fci \o <<x - 1, y - 1>>, cmd |-> RecordedIn(scbs[x])[y],
                parentCmd |-> c] : y \in 1..Len(RecordedIn(scbs[x]))} :
              x \in 1..Len(scbs)}
PrimaryEntries(fci3, cb, Taken(_)) ==
    UNION {{[id |-> fci3 \o <<k - 1>>, cmd |-> RecordedIn(cb)[k], parentCmd |-> 0]}
           \cup (IF cbcs[RecordedIn(cb)[k]].isCmdExecuteCommands
                 THEN SecondaryEntries(fci3 \o <<k - 1>>, RecordedIn(cb)[k], Taken)
                 ELSE {}) :
           k \in 1..Len(RecordedIn(cb))}
PendingEntries(id, submits, Taken(_)) ==
    UNION {UNION {PrimaryEntries(<<id, i - 1, j - 1>>, Taken(submits[i].commandBuffers)[j], Taken) :
                  j \in 1..Len(Taken(submits[i].commandBuffers))} :
           i \in 1..Len(submits)}

\* The list is in index order: (submit index, command buffer index, command
\* index), a CmdExecuteCommands before the commands of its secondary command
\* buffers and these in (secondary buffer index, command index) order.
InIndexOrder(list) ==
    \A p \in 1..Len(list), q \in 1..Len(list) :
        p < q => LessThan(list[p].id, list[q].id)

\* An entry with a four-element index has no parent; an entry with a
\* six-element index has the CmdExecuteCommands with the first four elements
\* as parent, and between the two there are only commands of that parent.
WellParented(list) ==
    \A p \in 1..Len(list) :
        \/ Len(list[p].id) = 4 /\ list[p].parentCmd = 0
        \/ /\ Len(list[p].id) = 6
           /\ \E q \in 1..(p - 1) :
                  /\ list[q].id = SubSeq(list[p].id, 1, 4)
                  /\ list[q].cmd = list[p].parentCmd
                  /\ cbcs[list[q].cmd].isCmdExecuteCommands
                  /\ \A n \in (q + 1)..p : list[n].parentCmd = list[q].cmd

\* C6 as stated: the pending list holds the recorded commands of all the
\* submitted command buffers and of all the secondary command buffers.
C6_AllSubmittedBuffers ==
    SubmitBuilt =>
        LET list == submitInfos[Len(trace)].submitted
        IN /\ InIndexOrder(list)
           /\ WellParented(list)
           /\ Range(list) = PendingEntries(Len(trace), trace[Len(trace)].submits, AllOf)

\* C6: the pending list is in index order, every secondary entry follows its
\* CmdExecuteCommands and carries it as parent with a six-element index, every
\* primary entry has no parent and a four-element index, and the list holds
\* the recorded commands of the command buffers (of a batch, of a
\* CmdExecuteCommands) up to the first one without a shadow entry.
C6_PendingOrder ==
    SubmitBuilt =>
        LET list == submitInfos[Len(trace)].submitted
        IN /\ InIndexOrder(list)
           /\ WellParented(list)
           /\ Range(list) = PendingEntries(Len(trace), trace[Len(trace)].submits, UpToUnknown)
           /\ submitInfos[Len(trace)].pendingCommands = list

\* Primary P with CmdExecuteCommands(S1, S2), S1 = [d1, d2], S2 = [d3]: the
\* pending list is [ExecCmds, d1, d2, d3].
C6_Witness ==
    /\ SubmitBuilt
    /\ LET list == submitInfos[Len(trace)].submitted
           id == Len(trace)
       IN /\ [n \in 1..Len(list) |-> list[n].id] =
                 <<<<id, 0, 0, 0>>, <<id, 0, 0, 0, 0, 0>>,
                   <<id, 0, 0, 0, 0, 1>>, <<id, 0, 0, 0, 1, 0>>>>
          /\ cbcs[list[1].cmd].isCmdExecuteCommands
          /\ list[2].cmd = commands[2][1]
          /\ list[3].cmd = commands[2][2]
          /\ list[4].cmd = commands[3][1]
          /\ \A n \in 2..4 : list[n].parentCmd = list[1].cmd

\* A command buffer without a shadow entry hides the command buffers after it.
C6_WitnessCut ==
    /\ SubmitBuilt
    /\ PendingEntries(Len(trace), trace[Len(trace)].submits, AllOf)
           # PendingEntries(Len(trace), trace[Len(trace)].submits, UpToUnknown)

-----------------------------------------------------------------------------
(* Properties of the emitter *)

\* C7: no behaviour of the footprint has the null handle in its read set or
\* in its write set.
C7_NoNullHandle ==
    \A n \in 1..Len(ft) :
        \A v \in Range(ft[n].reads) \cup Range(ft[n].writes) :
            ~(v.k = "vkHandle" /\ v.n = 0)

\* The footprint has the behaviour of a CmdExecuteCommands whose first
\* secondary command buffer is the null handle; it read the second one.
C7_Witness ==
    \E n \in 1..Len(trace) :
        /\ trace[n].type = "VkCmdExecuteCommands"
        /\ trace[n].secondaries[1] = 0
        /\ \E m \in 1..Len(ft) :
               ft[m].idx = <<n>> /\ toVkHandle(trace[n].secondaries[2]) \in Range(ft[m].reads)

\* The variables of a list that are handles, null or not.
IsNull(c) == c.k = "vkHandle" /\ c.n = 0
HasNull(cs) == \E i \in 1..Len(cs) : IsNull(cs[i])
HandlesOf(cs) == SelectSeq(cs, LAMBDA c : c.k = "vkHandle")
NonNullHandlesOf(cs) == SelectSeq(cs, LAMBDA c : c.k = "vkHandle" /\ c.n # 0)
\* The spans of a list on a memory that is not null: each is written as one
\* recorded span.
WrittenSpansOf(cs) == SelectSeq(cs, LAMBDA c : c.k = "memorySpan" /\ c.n # 0)

-----------------------------------------------------------------------------
(* Properties of the recorded memory spans *)

\* Command n is a flush whose behaviour wrote a span, and the interval of it.
Wrote(n) == trace[n].type = "VkFlushMappedMemoryRanges" /\ ft[n].writes # <<>>
Invalidates(n) == trace[n].type = "VkInvalidateMappedMemoryRanges"
MemoryOf(n) == trace[n].ranges[1].memory
StartOf(n) == trace[n].ranges[1].offset
EndOf(n) == trace[n].ranges[1].offset + trace[n].ranges[1].size
\* The recorded spans a behaviour read.
SpanReads(b) == SelectSeq(b.reads, LAMBDA c : c.k = "recordedSpan")

\* C9: after a write of [A, C) and then a write of [B, D) on a memory, with
\* A < B < C < D and no other write to it, a read of [A, D) stamps exactly two
\* reads, of the span the first writer recorded and of the span the second
\* writer recorded. In general the read of a span stamps one read per
\* recorded span of the memory that overlaps the interval read.
C9_ReadPerOverlappingSpan ==
    /\ \A i \in 1..Len(trace), j \in 1..Len(trace), k \in 1..Len(trace) :
           (/\ i < j /\ j < k
            /\ Wrote(i) /\ Wrote(j) /\ Invalidates(k)
            /\ MemoryOf(i) = MemoryOf(j) /\ MemoryOf(j) = MemoryOf(k)
            /\ StartOf(i) < StartOf(j) /\ StartOf(j) < EndOf(i) /\ EndOf(i) < EndOf(j)
            /\ StartOf(k) = StartOf(i) /\ EndOf(k) = EndOf(j)
            /\ \A n \in (i + 1)..(k - 1) : n # j => ~Wrote(n))
           => /\ SpanReads(ft[k]) = <<ft[i].writes[1], ft[j].writes[1]>>
              /\ defB[ft[i].writes[1]] = ft[i].id
              /\ defB[ft[j].writes[1]] = ft[j].id
              /\ ft[i].id # ft[j].id
    /\ (Len(trace) > 0 /\ Invalidates(Len(trace))) =>
           LET k == Len(trace)
               hit == {x \in Range(recordsOf(State, MemoryOf(k))) :
                          Overlaps(spans[x].start, spans[x].end, StartOf(k), EndOf(k))}
           IN /\ Range(SpanReads(ft[k])) = {RecordedSpan(x) : x \in hit}
              /\ Len(SpanReads(ft[k])) = Cardinality(hit)

\* Write [A, C), write [B, D), read [A, D): two reads were stamped.
C9_Witness ==
    \E i \in 1..Len(trace), j \in 1..Len(trace), k \in 1..Len(trace) :
        /\ i < j /\ j < k
        /\ Wrote(i) /\ Wrote(j) /\ Invalidates(k)
        /\ StartOf(i) < StartOf(j) /\ StartOf(j) < EndOf(i) /\ EndOf(i) < EndOf(j)
        /\ StartOf(k) = StartOf(i) /\ EndOf(k) = EndOf(j)
        /\ Len(SpanReads(ft[k])) = 2

\* C10: a read of a span that overlaps a span written earlier, with no write
\* in between to the same memory that overlaps the written span, stamps a
\* read of the recorded duplicate of the written span, whose defining
\* behaviour is the writer, and of no other recorded span inside the written
\* interval; and every recorded span a behaviour read was written by an
\* earlier behaviour: later writes add no read to it.
C10_ReadResolvesAtReadTime ==
    /\ \A i \in 1..Len(trace), k \in 1..Len(trace) :
           (/\ i < k
            /\ Wrote(i) /\ Invalidates(k)
            /\ MemoryOf(i) = MemoryOf(k)
            /\ Overlaps(StartOf(i), EndOf(i), StartOf(k), EndOf(k))
            /\ \A n \in (i + 1)..(k - 1) :
                   ~(/\ Wrote(n)
                     /\ MemoryOf(n) = MemoryOf(i)
                     /\ Overlaps(StartOf(n), EndOf(n), StartOf(i), EndOf(i))))
           => /\ ft[i].writes[1] \in Range(SpanReads(ft[k]))
              /\ defB[ft[i].writes[1]] = ft[i].id
              /\ k = Len(trace) =>
                     \A c \in Range(SpanReads(ft[k])) :
                         Overlaps(spans[c.n].start, spans[c.n].end, StartOf(i), EndOf(i))
                             => c = ft[i].writes[1]
    /\ \A n \in 1..Len(ft) :
           \A c \in Range(SpanReads(ft[n])) :
               c \in DOMAIN defB /\ defB[c] < ft[n].id

\* A span was written, read, and written again after the read.
C10_Witness ==
    \E i \in 1..Len(trace), k \in 1..Len(trace), n \in 1..Len(trace) :
        /\ i < k /\ k < n
        /\ Wrote(i) /\ Invalidates(k) /\ Wrote(n)
        /\ Overlaps(StartOf(i), EndOf(i), StartOf(k), EndOf(k))
        /\ Overlaps(StartOf(n), EndOf(n), StartOf(k), EndOf(k))
        /\ SpanReads(ft[k]) = <<ft[i].writes[1]>>

-----------------------------------------------------------------------------
(* Properties of the binding lists *)

\* The bindings of a list follow one another without overlap.
SortedBindings(l) ==
    /\ \A i \in 1..Len(l) : spanStart(l[i]) <= spanEnd(l[i])
    /\ \A i \in 1..(Len(l) - 1) : spanEnd(l[i]) <= spanStart(l[i + 1])
SortedSpans(l) ==
    /\ \A i \in 1..Len(l) : spans[l[i]].start <= spans[l[i]].end
    /\ \A i \in 1..(Len(l) - 1) : spans[l[i]].end <= spans[l[i + 1]].start

\* The memory byte bound to byte x of a resource: none, or memory and address.
BoundAt(l, x) ==
    LET hit == {i \in 1..Len(l) : spanStart(l[i]) <= x /\ x < spanEnd(l[i])}
    IN IF hit = {} THEN <<>>
       ELSE LET p == l[Min(hit)]
            IN IF p.backingData.k = "memorySpan"
               THEN <<p.backingData.n, p.backingData.a + (x - spanStart(p))>>
               ELSE <<p.backingData>>

\* What a list of binds, the last first, asks for at byte x over what was
\* bound before.
RECURSIVE AskedAt(_, _, _, _)
AskedAt(old, binds, i, x) ==
    IF i = 0 THEN old
    ELSE IF /\ binds[i].memory # 0
            /\ binds[i].resourceOffset <= x
            /\ x < binds[i].resourceOffset + binds[i].size
    THEN <<binds[i].memory, binds[i].memoryOffset + (x - binds[i].resourceOffset)>>
    ELSE AskedAt(old, binds, i - 1, x)

\* The binds of the last command of the trace on a resource.
BindsOn(cmd, kind, res) ==
    CASE cmd.type = "VkBindImageMemory" /\ kind = "image" /\ cmd.image = res ->
            <<[memory |-> cmd.memory, resourceOffset |-> 0, size |-> cmd.size,
               memoryOffset |-> cmd.memoryOffset]>>
      [] cmd.type = "VkBindBufferMemory" /\ kind = "buffer" /\ cmd.buffer = res ->
            <<[memory |-> cmd.memory, resourceOffset |-> 0, size |-> cmd.size,
               memoryOffset |-> cmd.memoryOffset]>>
      [] cmd.type = "VkQueueBindSparse" /\ kind = "buffer"
           /\ cmd.bufferBinds # <<>> /\ cmd.bufferBinds[1].resource = res ->
            cmd.bufferBinds[1].binds
      [] cmd.type = "VkQueueBindSparse" /\ kind = "image"
           /\ cmd.opaqueBinds # <<>> /\ cmd.opaqueBinds[1].resource = res ->
            cmd.opaqueBinds[1].binds
      [] OTHER -> <<>>

AllBindingListsSorted ==
    /\ \A img \in DOMAIN images : SortedBindings(images[img].opaqueData)
    /\ \A buf \in DOMAIN buffers : SortedBindings(buffers[buf])
    /\ \A mem \in DOMAIN records : SortedSpans(records[mem])

\* A step binds what it asks for and leaves every other byte of every
\* resource that keeps its shadow entry bound as it was.
RebindReplaces ==
    Len(trace') = Len(trace) + 1 /\ ~crashed' =>
        LET cmd == trace'[Len(trace')]
        IN /\ \A buf \in DOMAIN buffers', x \in 0..(vkWholeSize - 1) :
                  BoundAt(buffers'[buf], x) =
                      AskedAt(BoundAt(buffersOf(State, buf), x),
                              BindsOn(cmd, "buffer", buf),
                              Len(BindsOn(cmd, "buffer", buf)), x)
           /\ \A img \in DOMAIN images \cap DOMAIN images', x \in 0..(vkWholeSize - 1) :
                  cmd.type # "VkGetSwapchainImagesKHR" =>
                      BoundAt(images'[img].opaqueData, x) =
                          AskedAt(BoundAt(images[img].opaqueData, x),
                                  BindsOn(cmd, "image", img),
                                  Len(BindsOn(cmd, "image", img)), x)

-----------------------------------------------------------------------------
(* Properties of getSubBindingList *)

\* The range of a call: from offset to offset + size, or to the end of the
\* resource when the size is vkWholeSize or offset + size wraps around.
RangeEnd(offset, size) ==
    IF size = vkWholeSize \/ offset + size > vkWholeSize
    THEN vkWholeSize + 1
    ELSE offset + size

\* The bindings of the list that intersect the range, in list order.
Intersecting(l, offset, size) ==
    SelectSeq(l, LAMBDA p : /\ spanStart(p) < RangeEnd(offset, size)
                            /\ offset < spanEnd(p))

\* The intersection of a binding with the range, its memory span shifted and
\* shrunk by the same amounts.
Clipped(p, offset, size) ==
    LET lo == Max({spanStart(p), offset})
        hi == Min({spanEnd(p), RangeEnd(offset, size)})
    IN [resourceOffset |-> lo, bindSize |-> hi - lo,
        backingData |-> IF p.backingData.k = "memorySpan"
                        THEN Var("memorySpan", p.backingData.n,
                                 p.backingData.a + (lo - spanStart(p)),
                                 p.backingData.a + (lo - spanStart(p)) + (hi - lo))
                        ELSE p.backingData]

\* C12: getSubBindingList(list, offset, size) returns, in list order, one
\* sub-binding for each binding of the list that intersects
\* [offset, offset + size) and nothing else; each sub-binding covers the
\* intersection of its binding with the range, its memory span shifted and
\* shrunk by the same amounts; a size of vkWholeSize, and a sum that wraps
\* around, mean the range from offset to the end of the resource.
C12_SubBindingList ==
    emitted # <<>> /\ emitted.op = "getSubBindingList" =>
        LET hit == Intersecting(emitted.list, emitted.offset, emitted.size)
        IN /\ Len(emitted.sub) = Len(hit)
           /\ \A i \in 1..Len(hit) :
                  [resourceOffset |-> emitted.sub[i].resourceOffset,
                   bindSize |-> emitted.sub[i].bindSize,
                   backingData |-> emitted.sub[i].backingData]
                      = Clipped(hit[i], emitted.offset, emitted.size)

\* A call whose sum wraps around has clipped a binding at the offset and left
\* a binding below the offset out.
C12_Witness ==
    /\ emitted # <<>>
    /\ emitted.op = "getSubBindingList"
    /\ emitted.offset + emitted.size > vkWholeSize
    /\ Len(emitted.list) >= 2
    /\ Len(emitted.sub) >= 1
    /\ Len(emitted.sub) < Len(emitted.list)
    /\ emitted.sub[1].resourceOffset = emitted.offset
    /\ \E i \in 1..Len(emitted.list) :
           /\ spanStart(emitted.list[i]) < emitted.offset
           /\ emitted.offset < spanEnd(emitted.list[i])

-----------------------------------------------------------------------------
(* Properties of VkBeginCommandBuffer and VkResetCommandBuffer *)

\* The commands of the trace that record into a command buffer; the k-th of
\* them made the k-th *commandBufferCommand.
IsRecording(p) == trace[p].type \in {"VkCmdSetLineWidth", "VkCmdExecuteCommands"}
CommandOf(p) == Cardinality({q \in 1..p : IsRecording(q)})

\* The most recent VkBeginCommandBuffer or VkResetCommandBuffer of a command
\* buffer, 0 when there is none.
LastBeginOrReset(cb) ==
    Max({0} \cup {p \in 1..Len(trace) :
                     /\ trace[p].type \in {"VkBeginCommandBuffer", "VkResetCommandBuffer"}
                     /\ trace[p].commandBuffer = cb})

\* The commands recorded into a command buffer after that, as a set and in
\* the order of the trace.
RecordedSince(cb) ==
    {p \in 1..Len(trace) : /\ IsRecording(p)
                           /\ trace[p].commandBuffer = cb
                           /\ p > LastBeginOrReset(cb)}
RECURSIVE InOrder(_)
InOrder(S) == IF S = {} THEN <<>> ELSE <<Min(S)>> \o InOrder(S \ {Min(S)})

\* What the submit of command buffer 1 has to enqueue: its commands since
\* its last Begin/Reset, each VkCmdExecuteCommands followed by the commands
\* of command buffer 2 since the last Begin/Reset of that one.
EnqueuedSince ==
    Flatten([n \in 1..Cardinality(RecordedSince(1)) |->
               <<CommandOf(InOrder(RecordedSince(1))[n])>>
               \o (IF trace[InOrder(RecordedSince(1))[n]].type = "VkCmdExecuteCommands"
                   THEN [k \in 1..Cardinality(RecordedSince(2)) |->
                           CommandOf(InOrder(RecordedSince(2))[k])]
                   ELSE <<>>)])

\* C13: after VkBeginCommandBuffer or VkResetCommandBuffer on a command
\* buffer that has a shadow entry its list of recorded commands is empty,
\* and a later VkQueueSubmit enqueues the commands recorded after the most
\* recent Begin/Reset of each buffer and none recorded before it.
C13_ClearedOnBeginAndReset ==
    /\ (/\ ~crashed
        /\ trace # <<>>
        /\ trace[Len(trace)].type \in {"VkBeginCommandBuffer", "VkResetCommandBuffer"}
        /\ trace[Len(trace)].commandBuffer \in DOMAIN commandBuffers)
           => RecordedIn(trace[Len(trace)].commandBuffer) = <<>>
    /\ SubmitBuilt =>
           [n \in 1..Len(submitInfos[Len(trace)].submitted) |->
               submitInfos[Len(trace)].submitted[n].cmd] = EnqueuedSince

\* A submit has left out a command of the primary command buffer that was
\* recorded before a Begin/Reset, and has enqueued commands recorded after it.
C13_Witness ==
    /\ SubmitBuilt
    /\ Len(submitInfos[Len(trace)].submitted) >= 2
    /\ \E p \in 1..Len(trace) :
           /\ IsRecording(p)
           /\ trace[p].commandBuffer = 1
           /\ p < LastBeginOrReset(1)

-----------------------------------------------------------------------------
(* Properties of the commands that are kept alive *)

\* The behaviour BuildFootprint stamped for the command itself.
CommandBehaviours(types) ==
    {n \in 1..Len(ft) : /\ ft[n].role = "command"
                        /\ trace[ft[n].idx[1]].type \in types}
\* The commands of the trace with such a type.
CommandsOfType(types) == {p \in 1..Len(trace) : trace[p].type \in types}

DestroyTypes ==
    {"VkDestroySemaphore", "VkDestroyEvent", "VkDestroyFence", "VkDestroyImage",
     "VkDestroyBuffer", "VkDestroyImageView", "VkFreeMemory", "VkFreeCommandBuffers"}

\* The handle a destroy command of a synchronization object is given.
SyncHandle(cmd) ==
    CASE cmd.type = "VkDestroySemaphore" -> cmd.semaphore
      [] cmd.type = "VkDestroyEvent" -> cmd.event
      [] cmd.type = "VkDestroyFence" -> cmd.fence
      [] OTHER -> 1

WaitTypes ==
    {"VkWaitForFences", "VkGetFenceStatus", "VkGetEventStatus", "VkQueueWaitIdle",
     "VkDeviceWaitIdle"}

\* What the command at place p of the trace waits for or asks about.
WaitsForSomething(p) ==
    CASE trace[p].type = "VkGetEventStatus" -> trace[p].event # 0
      [] trace[p].type = "VkGetFenceStatus" -> trace[p].fence # 0
      [] trace[p].type = "VkWaitForFences" ->
            \E i \in 1..Len(trace[p].fences) : trace[p].fences[i] # 0
      [] trace[p].type = "VkQueueWaitIdle" ->
            /\ trace[p].queue # 0
            /\ \E q \in 1..(p - 1) : /\ trace[q].type = "VkQueueSubmit"
                                     /\ trace[q].queue = trace[p].queue
      [] trace[p].type = "VkDeviceWaitIdle" ->
            \E q \in 1..(p - 1) : trace[q].type = "VkQueueSubmit"
      [] OTHER -> FALSE

\* C15 as stated: the behaviour of every VkWaitForFences, VkGetFenceStatus,
\* VkGetEventStatus, VkQueueWaitIdle and VkDeviceWaitIdle command whose mutate
\* succeeds has Alive = true in every state of the builder, that of a queue
\* that was never submitted to and that without any submit included.
C15_WaitAlive ==
    \A n \in CommandBehaviours(WaitTypes) : ft[n].alive

\* C15: the behaviour of such a command is alive when the command has
\* something to wait for or to ask about: a fence or an event that is not
\* null, a queue that was submitted to, for VkDeviceWaitIdle any queue that
\* was submitted to; otherwise it is not alive.
C15_WaitAliveIfWaiting ==
    \A n \in CommandBehaviours(WaitTypes) :
        ft[n].alive <=> WaitsForSomething(ft[n].idx[1])

\* VkQueueWaitIdle before and after the first submit to the queue, the first
\* not alive and the second alive.
C15_Witness ==
    /\ ~crashed
    /\ \E n, k \in CommandBehaviours({"VkQueueWaitIdle"}) : ft[n].alive /\ ~ft[k].alive


-----------------------------------------------------------------------------
(* Properties of the commands without a case and of failed mutates *)

\* The commands of the trace without a case in the main switch whose mutate
\* succeeded.
Unhandled == {p \in CommandsOfType(UnhandledTypes) : ~mutateFails(trace[p])}
\* The behaviours of the footprint of the command at place p of the trace.
BehavioursAt(p) == {n \in 1..Len(ft) : ft[n].idx = <<p>>}
\* The data bound to the images of LastDrawInfos as the command at place p
\* left it: the images of the last submit with draws before p.
DrawnBefore(p) ==
    {q \in 1..p : "lastDraw" \in DOMAIN trace[q] /\ ~mutateFails(trace[q])}
PinnedAt(p) ==
    DrawnBefore(p) # {} /\ trace[Max(DrawnBefore(p))].lastDraw # <<>>
       /\ \E q \in 1..p : trace[q].type = "VkBindImageMemory" /\ ~mutateFails(trace[q])

\* C16 as stated: for every command without a case in the main switch whose
\* mutate succeeds, exactly one behaviour of that command is in the footprint
\* and it has Alive = true.
C16_ExactlyOneBehaviour ==
    \A p \in Unhandled :
        /\ Cardinality(BehavioursAt(p)) = 1
        /\ \A n \in BehavioursAt(p) : ft[n].alive

\* C16: for every command without a case in the main switch whose mutate
\* succeeds, the main switch leaves exactly one behaviour of that command in
\* the footprint; it has Alive = true, reads nothing and writes nothing.
\* When the images of the framebuffer of the last draw have data bound, a
\* second behaviour of the command follows it, which is not alive, writes
\* nothing and reads what was recorded of that data; the command has no other
\* behaviour.
C16_OneAliveBehaviour ==
    \A p \in Unhandled :
        /\ \E n \in BehavioursAt(p) :
              /\ ft[n].role = "command" /\ ft[n].alive
              /\ ft[n].reads = <<>> /\ ft[n].writes = <<>>
              /\ \A k \in BehavioursAt(p) \ {n} :
                    /\ k = n + 1 /\ ft[k].role = "framebuffer"
                    /\ ~ft[k].alive /\ ft[k].writes = <<>>
                    /\ \A i \in 1..Len(ft[k].reads) : ft[k].reads[i].k = "recordedSpan"
        /\ Cardinality(BehavioursAt(p)) = (IF PinnedAt(p) THEN 2 ELSE 1)

\* A command without a case after a submit that drew into an image with
\* memory bound: it has two behaviours, the first of them alive.
C16_Witness ==
    /\ ~crashed
    /\ \E p \in Unhandled :
          /\ PinnedAt(p) /\ Cardinality(BehavioursAt(p)) = 2
          /\ \E n \in BehavioursAt(p) : ft[n].alive


\* The builder's shadow state: the maps of FootprintBuilder and the objects
\* they point to.
ShadowState ==
    <<images, buffers, commandBuffers, commands, cbcs, semaphoreSignals, fences,
      events, submitInfos, executionStates, records, spans,
      mappedCoherentMemories, swapchainImageAcquired, swapchainImagePresented,
      defB, nextLabelVal, nextBinding>>

\* The step is BuildFootprint of a command whose mutate returns an error.
FailedMutate ==
    /\ Len(trace') = Len(trace) + 1
    /\ mutateFails(trace'[Len(trace')])

\* The footprint has a behaviour of the main switch for exactly the commands
\* whose mutate succeeded, the commands after a failed one included.
StampedUnlessFailed ==
    \A p \in 1..Len(trace) :
        mutateFails(trace[p]) <=> BehavioursAt(p) = {}

-----------------------------------------------------------------------------
(* Properties of the commands given a handle without a shadow entry *)

\* C18 as stated: when a command is given a handle that is not null and has
\* no shadow entry in the builder, BuildFootprint skips the operation and
\* returns: no nil dereference is reached.
C18_UnknownHandleSkipped == ~crashed


-----------------------------------------------------------------------------
(* Properties of VkQueuePresentKHR and VkAcquireNextImageKHR *)

Presents == {p \in 1..Len(trace) : trace[p].type = "VkQueuePresentKHR"}
Acquires == {p \in 1..Len(trace) : trace[p].type = "VkAcquireNextImageKHR"}

\* The labels of an image of a swapchain.
AcquiredOf(e) == swapchainImageAcquired[e.swapchain][e.imageIndex + 1]
PresentedOf(e) == swapchainImagePresented[e.swapchain][e.imageIndex + 1]

\* The extra behaviours of the present at place p for the image e.
ExtraBehaviours(p, e) ==
    {n \in BehavioursAt(p) : /\ ft[n].role = "present"
                             /\ AcquiredOf(e) \in Range(ft[n].reads)
                             /\ PresentedOf(e) \in Range(ft[n].writes)}

\* The presents before place q of the trace that present the image of the
\* acquire at q.
PresentsBefore(q) ==
    {p \in Presents : /\ p < q
                      /\ \E i \in 1..Len(trace[p].swapchains) :
                            /\ trace[p].swapchains[i].swapchain = trace[q].swapchain
                            /\ trace[p].swapchains[i].imageIndex = trace[q].imageIndex}

\* The behaviour that last wrote the variable before the n-th behaviour of
\* the footprint, 0 when there is none.
LastWriterBefore(c, n) ==
    Max({0} \cup {k \in 1..(n - 1) : c \in Range(ft[k].writes)})

\* C19: for every VkQueuePresentKHR whose mutate succeeds and every image it
\* presents, exactly one extra behaviour is in the footprint, with
\* Alive = true, that reads the acquired label of the image and writes its
\* presented label; the behaviour of a later VkAcquireNextImageKHR of the
\* image writes the acquired label and reads the presented label, whose last
\* writer is the extra behaviour of the last present of the image.
C19_PresentAcquirePair ==
    /\ \A p \in Presents :
          /\ \A i \in 1..Len(trace[p].swapchains) :
                /\ Cardinality(ExtraBehaviours(p, trace[p].swapchains[i])) = 1
                /\ \A n \in ExtraBehaviours(p, trace[p].swapchains[i]) :
                      ft[n].alive /\ ft[n].writes = <<PresentedOf(trace[p].swapchains[i])>>
          /\ Cardinality({n \in BehavioursAt(p) : ft[n].role = "present"})
                 = Len(trace[p].swapchains)
    /\ \A q \in Acquires : \A n \in BehavioursAt(q) :
          /\ AcquiredOf(trace[q]) \in Range(ft[n].writes)
          /\ PresentedOf(trace[q]) \in Range(ft[n].reads)
          /\ PresentsBefore(q) # {} =>
                LastWriterBefore(PresentedOf(trace[q]), n)
                    \in ExtraBehaviours(Max(PresentsBefore(q)), trace[q])

\* Two images were presented by one command and one of them was acquired
\* after that.
C19_Witness ==
    /\ ~crashed
    /\ \E q \in Acquires : \E p \in PresentsBefore(q) :
          Len(trace[p].swapchains) = 2 /\ BehavioursAt(q) # {}


-----------------------------------------------------------------------------
(* Properties of the observations of mapped coherent memory *)

\* The addresses of an observation that fall into the mapped range of a
\* memory object.
OverlapOf(ro, mm) ==
    {a \in ro.base..(ro.base + ro.size - 1) :
        a >= mm.MappedLocation /\ a < mm.MappedLocation + mm.MappedSize}
\* The overlap as a span of the memory: its first offset and its size.
OverlapSpan(ro, mm, vkDm) ==
    [memory |-> vkDm,
     start |-> mm.MappedOffset + Min(OverlapOf(ro, mm)) - mm.MappedLocation,
     end |-> mm.MappedOffset + Min(OverlapOf(ro, mm)) - mm.MappedLocation
                 + Cardinality(OverlapOf(ro, mm))]

\* The behaviour the main switch stamped for the command at place p, in a
\* footprint.
TopBehaviour(fp, p) ==
    fp[CHOOSE n \in 1..Len(fp) : fp[n].role = "command" /\ fp[n].idx = <<p>>]
\* The spans of memory a behaviour writes, sp being the recorded spans.
SpansWritten(bh, sp) ==
    {sp[bh.writes[i].n] : i \in {j \in 1..Len(bh.writes) : bh.writes[j].k = "recordedSpan"}}

\* The step is BuildFootprint of a VkQueueSubmit or a VkUnmapMemory.
ObservingStep ==
    /\ Len(trace') = Len(trace) + 1
    /\ ~crashed'
    /\ trace'[Len(trace')].type \in {"VkQueueSubmit", "VkUnmapMemory"}

\* The spans the command writes are the overlaps of its observations with
\* the memories that are in the mapped-coherent set when the step begins,
\* and the behaviour is alive when there is one.
OverlapsWritten ==
    LET cmd == trace'[Len(trace')]
        bh == TopBehaviour(ft', Len(trace'))
        hits == {<<i, vkDm>> \in (1..Len(cmd.observations)) \X DOMAIN mappedCoherentMemories :
                    OverlapOf(cmd.observations[i], mappedCoherentMemories[vkDm]) # {}}
    IN /\ SpansWritten(bh, spans') =
              {OverlapSpan(cmd.observations[h[1]], mappedCoherentMemories[h[2]], h[2]) :
                  h \in hits}
       /\ hits # {} => bh.alive
       /\ cmd.type = "VkUnmapMemory" => cmd.memory \notin DOMAIN mappedCoherentMemories'

\* The terminal behaviour of a submit reads the queued label of the submit,
\* whose last writer is the behaviour the main switch stamped for the submit.
TerminalReadsQueued ==
    \A n \in 1..Len(ft) :
        ft[n].role = "done" =>
            /\ Label(submitInfos[ft[n].idx[1]].queued) \in Range(ft[n].reads)
            /\ LastWriterBefore(Label(submitInfos[ft[n].idx[1]].queued), n) # 0
            /\ ft[LastWriterBefore(Label(submitInfos[ft[n].idx[1]].queued), n)]
                   = TopBehaviour(ft, ft[n].idx[1])

\* C20: the behaviour of a VkQueueSubmit or VkUnmapMemory whose observations
\* overlap the mapped range of a memory of the mapped-coherent set is alive
\* and writes, for each overlap, the span of that memory at
\* mappedOffset + overlapBase - mappedAddress with the size of the overlap;
\* the terminal behaviour of the submit reads the queued label that this
\* behaviour wrote; for VkUnmapMemory the set is scanned before the memory
\* leaves it.
C20_CoherentObservationsWritten ==
    /\ [][ObservingStep => OverlapsWritten]_vars
    /\ [](TerminalReadsQueued)

\* A submit whose observation overlapped a mapped coherent memory ran its
\* commands to the end, and an unmap wrote the overlap with the memory it
\* unmapped.
C20_Witness ==
    /\ ~crashed
    /\ \E n \in 1..Len(ft) :
          /\ ft[n].role = "done"
          /\ SpansWritten(TopBehaviour(ft, ft[n].idx[1]), spans) # {}
    /\ \E p \in 1..Len(trace) :
          /\ trace[p].type = "VkUnmapMemory"
          /\ \E sp \in SpansWritten(TopBehaviour(ft, p), spans) : sp.memory = trace[p].memory


-----------------------------------------------------------------------------
(* Properties of the behaviour that keeps the last draw's framebuffer *)

\* The data bound to an image, imgs being the shadow entries of the images:
\* none for an image without an entry.
BoundTo(imgs, vkImg) ==
    IF vkImg \in DOMAIN imgs
    THEN [i \in 1..Len(imgs[vkImg].opaqueData) |-> imgs[vkImg].opaqueData[i].backingData]
    ELSE <<>>
\* The data bound to the images of a framebuffer.
FramebufferData(imgs, attached) ==
    Flatten([i \in 1..Len(attached) |-> BoundTo(imgs, attached[i])])
\* What a read of one datum stamps: the recorded spans of the memory that
\* overlap a span, sp and recs being the recorded spans and the lists of them.
StampedBy(c, sp, recs) ==
    IF c.k # "memorySpan" THEN {c}
    ELSE IF c.n \notin DOMAIN recs THEN {}
    ELSE {RecordedSpan(j) : j \in {x \in Range(recs[c.n]) :
                                      Overlaps(sp[x].start, sp[x].end, c.a, c.b)}}

\* The step is BuildFootprint of a command whose mutate succeeds.
StampedStep ==
    /\ Len(trace') = Len(trace) + 1
    /\ ~mutateFails(trace'[Len(trace')])
    /\ ~crashed'

\* The last-draw behaviours of the command at place p in a footprint.
LastDrawBehaviours(fp, p) ==
    {n \in 1..Len(fp) : fp[n].role = "framebuffer" /\ fp[n].idx = <<p>>}

\* After the step: no last-draw behaviour when the framebuffer has no data
\* bound; otherwise one, the last of the footprint, that reads that data and
\* writes nothing.
LastDrawRead ==
    IF FramebufferData(images', LastDrawInfos') = <<>>
    THEN LastDrawBehaviours(ft', Len(trace')) = {}
    ELSE /\ LastDrawBehaviours(ft', Len(trace')) = {Len(ft')}
         /\ ft'[Len(ft')].writes = <<>> /\ ~ft'[Len(ft')].alive
         /\ Range(ft'[Len(ft')].reads) =
                UNION {StampedBy(c, spans', records') :
                          c \in Range(FramebufferData(images', LastDrawInfos'))}

\* C21: after every command whose mutate succeeds, when the last submission
\* is a submit whose last draw has a framebuffer with images that have data
\* bound, a behaviour is added after the command's own and the rolled-out
\* ones that reads the data bound to every image of that framebuffer at that
\* moment; when the images have no data bound, or there is no last-draw
\* framebuffer, no such behaviour is added.
C21_LastDrawRetained == [][StampedStep => LastDrawRead]_vars

\* A command after the submit got a last-draw behaviour that reads a
\* recorded span of the memory bound to the image.
C21_Witness ==
    /\ ~crashed
    /\ \E p \in CommandsOfType({"VkGetFenceFdKHR"}) :
          \E n \in LastDrawBehaviours(ft, p) : ft[n].reads # <<>>

-----------------------------------------------------------------------------
(* Properties of the render pass commands *)

\* The attachment indices a subpass description references, as colour,
\* resolve, input or depth-stencil attachment.
Referenced(desc) ==
    attachmentSet(desc.colorAttachments) \cup attachmentSet(desc.resolveAttachments)
        \cup attachmentSet(desc.inputAttachments)
        \cup attachmentSet(desc.depthStencilAttachment)

\* The subpasses of the recorded render pass that reference an attachment,
\* counted from 1.
Referencing(ai) ==
    {si \in 1..Len(RecordedPass.subpasses) : ai \in Referenced(RecordedPass.subpasses[si])}
LoadSubpass(ai) == Min(Referencing(ai))
StoreSubpass(ai) == Max(Referencing(ai))

\* The recorded VkCmdBeginRenderPass was executed on the queue.
PassBegun == 7 \in DOMAIN executionStates /\ executionStates[7].subpasses # <<>>

\* The attachment has an info object in a list of a subpass of the
\* execution state.
Placed(list, si, ai) ==
    \E i \in DOMAIN executionStates[7].subpasses[si][list] :
        executionStates[7].subpasses[si][list][i].ai = ai

\* C22: when the recorded VkCmdBeginRenderPass has executed, every attachment
\* that a subpass references as colour, resolve, input or depth-stencil
\* attachment is in the loadAttachments of the first subpass that references
\* it and of no other, and in the storeAttachments of the last subpass that
\* references it and of no other.
C22_LoadStorePlacement ==
    PassBegun =>
        \A ai \in DOMAIN RecordedPass.attachments :
            Referencing(ai) # {} =>
                \A si \in 1..Len(executionStates[7].subpasses) :
                    /\ Placed("loadAttachments", si, ai) <=> si = LoadSubpass(ai)
                    /\ Placed("storeAttachments", si, ai) <=> si = StoreSubpass(ai)

\* The behaviour of the executed command that started the subpass si: that
\* of VkCmdBeginRenderPass for the first, of VkCmdNextSubpass for the second.
Starting(si) ==
    {i \in DOMAIN ft : ft[i].role = (IF si = 1 THEN "beginRenderPass" ELSE "nextSubpass")}
\* The behaviours added when the subpass si ended, other than that of the
\* command that ended it.
Ending(si) ==
    {i \in DOMAIN ft :
        /\ ft[i].role \in {"storeLayout", "storeData", "storeDepthStencil"}
        /\ \E j \in DOMAIN ft :
               /\ ft[j].idx = ft[i].idx
               /\ ft[j].role = (IF si < Len(RecordedPass.subpasses) THEN "nextSubpass"
                                ELSE "endRenderPass")}

\* The data and the layout of the image behind an attachment.
AttachmentData(ai) ==
    {images[RecordedFramebuffer.attachments[ai].image].opaqueData[i].backingData :
        i \in DOMAIN images[RecordedFramebuffer.attachments[ai].image].opaqueData}
AttachmentLayout(ai) == images[RecordedFramebuffer.attachments[ai].image].layout
Covered(ai) ==
    fullImageData(RecordedFramebuffer.attachments[ai], RecordedFramebuffer,
                  vkRemainingArrayLayers)

OnlyReads(bh, cs) == cs \subseteq Range(bh.reads) /\ cs \cap Range(bh.writes) = {}
OnlyWrites(bh, cs) == cs \subseteq Range(bh.writes) /\ cs \cap Range(bh.reads) = {}
Modifies(bh, cs) == cs \subseteq Range(bh.reads) /\ cs \subseteq Range(bh.writes)

\* The attachment is the depth-stencil attachment of the subpass.
IsDepthStencil(ai, si) ==
    ai \in attachmentSet(RecordedPass.subpasses[si].depthStencilAttachment)

\* The load op of the attachment, as the claim has it applied.
LoadOpApplied(bh, ai, si) ==
    /\ Modifies(bh, {AttachmentLayout(ai)})
    /\ IF IsDepthStencil(ai, si)
       THEN CASE /\ isLoad(RecordedPass.attachments[ai].loadOp)
                 /\ isLoad(RecordedPass.attachments[ai].stencilLoadOp) ->
                     OnlyReads(bh, AttachmentData(ai))
              [] /\ ~isLoad(RecordedPass.attachments[ai].loadOp)
                 /\ ~isLoad(RecordedPass.attachments[ai].stencilLoadOp) ->
                     IF Covered(ai) THEN OnlyWrites(bh, AttachmentData(ai))
                     ELSE Modifies(bh, AttachmentData(ai))
              [] OTHER -> Modifies(bh, AttachmentData(ai))
       ELSE IF isLoad(RecordedPass.attachments[ai].loadOp)
            THEN OnlyReads(bh, AttachmentData(ai))
            ELSE IF Covered(ai) THEN OnlyWrites(bh, AttachmentData(ai))
            ELSE Modifies(bh, AttachmentData(ai))

\* C23: the behaviour of the command that starts a subpass modifies the
\* layout of every attachment whose load subpass it is, the depth-stencil
\* attachment included, and applies the load op to its data: it only reads
\* the data when the op is LOAD (both ops, for depth-stencil), otherwise it
\* writes the data when the view covers the image and modifies it when it
\* does not (and modifies it when one of the two ops of a depth-stencil
\* attachment is LOAD).
C23_LoadOps ==
    \A si \in 1..2 : \A i \in Starting(si) :
        \A ai \in DOMAIN RecordedPass.attachments :
            (Referencing(ai) # {} /\ LoadSubpass(ai) = si) =>
                LoadOpApplied(ft[i], ai, si)

\* The store op of the attachment, as the claim has it applied.
StoreOpApplied(bh, ai, si) ==
    IF \/ isStore(RecordedPass.attachments[ai].storeOp)
       \/ (IsDepthStencil(ai, si) /\ isStore(RecordedPass.attachments[ai].stencilStoreOp))
    THEN Modifies(bh, AttachmentData(ai))
    ELSE IF Covered(ai) THEN OnlyWrites(bh, AttachmentData(ai))
    ELSE Modifies(bh, AttachmentData(ai))

\* The command that ends the subpass si was executed.
Ended(si) ==
    \E j \in DOMAIN ft :
        ft[j].role = (IF si < Len(RecordedPass.subpasses) THEN "nextSubpass"
                      ELSE "endRenderPass")

\* C24: when a subpass ends, a behaviour is added for every colour, resolve,
\* input and depth-stencil attachment whose store subpass it is, which
\* applies the store op to the data of the attachment: modify when the
\* StoreOp (for depth-stencil, the StoreOp or the StencilStoreOp) is STORE,
\* otherwise write when the view covers the image and modify when it does
\* not.
C24_StoreOps ==
    PassBegun =>
        \A si \in 1..Len(RecordedPass.subpasses) :
            Ended(si) =>
                \A ai \in DOMAIN RecordedPass.attachments :
                    (Referencing(ai) # {} /\ StoreSubpass(ai) = si) =>
                        \E i \in Ending(si) : StoreOpApplied(ft[i], ai, si)

\* C25: at the end of a subpass, the data behaviour of a stored resolve
\* attachment reads the data of the colour attachment at the same position
\* of the colour reference array as the resolve attachment has in the
\* resolve reference array.
C25_ResolveReadsPairedColour ==
    PassBegun =>
        \A si \in 1..Len(RecordedPass.subpasses) :
            Ended(si) =>
                \A p \in DOMAIN RecordedPass.subpasses[si].resolveAttachments :
                    (/\ RecordedPass.subpasses[si].resolveAttachments[p]
                            # vkAttachmentUnused
                     /\ StoreSubpass(RecordedPass.subpasses[si].resolveAttachments[p]) = si)
                    => \A i \in Ending(si) :
                           (/\ ft[i].role = "storeData"
                            /\ AttachmentData(
                                   RecordedPass.subpasses[si].resolveAttachments[p])
                                 \subseteq Range(ft[i].writes))
                           => AttachmentData(
                                  RecordedPass.subpasses[si].colorAttachments[p])
                                \subseteq Range(ft[i].reads)

-----------------------------------------------------------------------------
(* Properties of the copies and clears of images *)

\* The size of a mip level along the axis i.
LevelSize(img, m, i) == Max({1, img.extent[i] \div (2 ^ m)})

\* The texels of an image: mip level, layer, x, y.
ImageTexels(img) ==
    {t \in (0..(img.mipLevels - 1)) \X (0..(img.arrayLayers - 1))
             \X (0..(img.extent[1] - 1)) \X (0..(img.extent[2] - 1)) :
        t[3] < LevelSize(img, t[1], 1) /\ t[4] < LevelSize(img, t[1], 2)}

\* The layers of a subresource, vkRemainingArrayLayers being all that remain.
LayersOf(img, sub) ==
    IF sub.layerCount = vkRemainingArrayLayers
    THEN sub.baseArrayLayer..(img.arrayLayers - 1)
    ELSE sub.baseArrayLayer..(sub.baseArrayLayer + sub.layerCount - 1)

\* The texels a region of a copy overwrites.
RegionTexels(img, r) ==
    {t \in ImageTexels(img) :
        /\ t[1] = r.subresource.mipLevel
        /\ t[2] \in LayersOf(img, r.subresource)
        /\ r.offset[1] <= t[3] /\ t[3] < r.offset[1] + r.extent[1]
        /\ r.offset[2] <= t[4] /\ t[4] < r.offset[2] + r.extent[2]}

\* The texels a range of a clear overwrites.
RangeTexels(img, rng) ==
    {t \in ImageTexels(img) :
        /\ rng.baseMipLevel <= t[1]
        /\ (rng.levelCount = vkRemainingMipLevels \/ t[1] < rng.baseMipLevel + rng.levelCount)
        /\ t[2] \in LayersOf(img, rng)}

\* The regions or ranges of the command overwrite every texel of its
\* destination image, in all the aspects of the image.
FullyCovered(cmd) ==
    IF "regions" \in DOMAIN cmd
    THEN UNION {RegionTexels(cmd.dstInfo, cmd.regions[i]) : i \in DOMAIN cmd.regions}
             = ImageTexels(cmd.dstInfo)
    ELSE UNION {RangeTexels(cmd.dstInfo, cmd.ranges[i]) : i \in DOMAIN cmd.ranges}
             = ImageTexels(cmd.dstInfo)

\* The data of an image: the backing data of its bindings.
DataOf(vkImg) ==
    {images[vkImg].opaqueData[i].backingData : i \in DOMAIN images[vkImg].opaqueData}

\* The data of the source of a copy: that of the source image, or the spans
\* recorded for the memory of the source buffer.
SourceData(cmd) ==
    IF "srcImage" \in DOMAIN cmd THEN DataOf(cmd.srcImage)
    ELSE IF "srcBuffer" \in DOMAIN cmd
    THEN {RecordedSpan(i) : i \in {j \in DOMAIN spans : spans[j].memory = 3}}
    ELSE {}

\* The recorded copy or clear, and the behaviours of its execution.
Copies == {i \in DOMAIN trace : trace[i].type \in CopyTypes}
Deferred == {i \in DOMAIN ft : ft[i].role = "subcommand"}

\* C26: the behaviour of an executed copy, blit, resolve or clear of an image
\* reads the source data; it writes and does not read the data of the
\* destination image when the regions or ranges cover the whole image, and
\* modifies the data otherwise.
C26_WriteIfCovered ==
    \A c \in Copies : \A i \in Deferred :
        /\ SourceData(trace[c]) \subseteq Range(ft[i].reads)
        /\ IF FullyCovered(trace[c])
           THEN OnlyWrites(ft[i], DataOf(trace[c].dstImage))
           ELSE Modifies(ft[i], DataOf(trace[c].dstImage))

-----------------------------------------------------------------------------
(* Properties of the updates of descriptor sets *)

\* The step is a VkUpdateDescriptorSets that did not panic; Update is the
\* command and UpdateBehaviour its behaviour.
Update == trace'[Len(trace')]
UpdateStep ==
    /\ Len(trace') = Len(trace) + 1
    /\ Update.type = "VkUpdateDescriptorSets"
    /\ ~crashed'
    /\ Len(ft') = Len(ft) + 1
UpdateBehaviour == ft'[Len(ft')]

\* The identities of the descriptors a behaviour reads and writes, in order.
DescriptorsIn(cs) ==
    [k \in 1..Len(SelectSeq(cs, LAMBDA c : c.k = "descriptor")) |->
        SelectSeq(cs, LAMBDA c : c.k = "descriptor")[k].n]

\* The count reserved for a binding of a set object, zero when none is.
ReservedCount(ds, binding) ==
    IF binding \in DOMAIN dss[ds].descriptorCounts
    THEN dss[ds].descriptorCounts[binding] ELSE 0

\* The slots of n consecutive descriptors from <<binding, elm>> on: a
\* descriptor whose element has reached the count of the binding goes to
\* element 0 of the next binding, and the next descriptor follows it by one
\* element.
RECURSIVE CarriedSlots(_, _, _, _)
CarriedSlots(ds, binding, elm, n) ==
    IF n = 0 THEN <<>>
    ELSE IF elm >= ReservedCount(ds, binding)
    THEN <<<<binding + 1, 0>>>> \o CarriedSlots(ds, binding + 1, 1, n - 1)
    ELSE <<<<binding, elm>>>> \o CarriedSlots(ds, binding, elm + 1, n - 1)

\* After the step, the descriptors with these identities are at these slots
\* of the set object.
PlacedAt(ds, ids, slots) ==
    /\ Len(ids) = Len(slots)
    /\ \A k \in 1..Len(ids) :
           /\ slots[k] \in DOMAIN dss'[ds].descriptors
           /\ dss'[ds].descriptors[slots[k]].id = ids[k]

WriteCarried(w) ==
    PlacedAt(descriptorSets[w.dstSet], DescriptorsIn(UpdateBehaviour.writes),
             CarriedSlots(descriptorSets[w.dstSet], w.dstBinding, w.dstArrayElement,
                          w.descriptorCount))

DstSlots(c) ==
    CarriedSlots(descriptorSets[c.dstSet], c.dstBinding, c.dstArrayElement,
                 c.descriptorCount)
SrcSlots(c) ==
    CarriedSlots(descriptorSets[c.srcSet], c.srcBinding, c.srcArrayElement,
                 c.descriptorCount)
\* The descriptors of the copy whose source slot has a descriptor.
Copied(c) ==
    SelectSeq([i \in 1..c.descriptorCount |-> i],
              LAMBDA i : SrcSlots(c)[i] \in DOMAIN dss[descriptorSets[c.srcSet]].descriptors)
\* The copy writes no slot it reads.
Apart(c) ==
    c.srcSet # c.dstSet \/ Range(DstSlots(c)) \cap Range(SrcSlots(c)) = {}

CopyCarried(c) ==
    /\ DescriptorsIn(UpdateBehaviour.reads) =
           [k \in 1..Len(Copied(c)) |->
               dss[descriptorSets[c.srcSet]].descriptors[SrcSlots(c)[Copied(c)[k]]].id]
    /\ PlacedAt(descriptorSets[c.dstSet], DescriptorsIn(UpdateBehaviour.writes),
                [k \in 1..Len(Copied(c)) |-> DstSlots(c)[Copied(c)[k]]])

OverflowCarried ==
    /\ (UpdateStep /\ Len(Update.writes) = 1 /\ Len(Update.copies) = 0)
           => WriteCarried(Update.writes[1])
    /\ (UpdateStep /\ Len(Update.writes) = 0 /\ Len(Update.copies) = 1
          /\ Apart(Update.copies[1]))
           => CopyCarried(Update.copies[1])

\* C27: the descriptors of a write go to consecutive slots from
\* <<DstBinding, DstArrayElement>> on, a descriptor whose element has reached
\* the count reserved for its binding going to element 0 of the next
\* binding; the descriptors of a copy are read from, and written to, slots
\* found in the same way, the source apart from the destination.
C27_OverflowCarry == [][OverflowCarried]_vars

\* A write whose second descriptor was carried to the next binding, and a
\* copy whose source and destination were both carried, are in the trace.
C27_Witness ==
    /\ ~crashed
    /\ \E n \in 1..Len(trace) :
           /\ trace[n].type = "VkUpdateDescriptorSets"
           /\ trace[n].writes = <<WriteDescriptorSet(31, 0, 1, 2, TypeOfBinding(0))>>
    /\ \E n \in 1..Len(trace) :
           /\ trace[n].type = "VkUpdateDescriptorSets"
           /\ trace[n].copies = <<CopyDescriptorSet(31, 0, 1, 32, 0, 1, 2)>>
    /\ <<1, 0>> \in DOMAIN dss[descriptorSets[32]].descriptors

\* The slots of a set object without the identities of the descriptors, and
\* the count of dynamic descriptors.
Shadow(sets) ==
    [ds \in DOMAIN sets |->
        [descriptors |->
             [slot \in DOMAIN sets[ds].descriptors |->
                 [sets[ds].descriptors[slot] EXCEPT !.id = 0]],
         descriptorCounts |-> sets[ds].descriptorCounts,
         dynamicDescriptorCount |-> sets[ds].dynamicDescriptorCount]]

\* The reads and the writes of a behaviour: the handles as they are, the
\* other variables by their type.
ShapeOf(cs) == [k \in 1..Len(cs) |-> IF cs[k].k = "vkHandle" THEN cs[k] ELSE Var(cs[k].k, 0, 0, 0)]
Shape(bh) == [reads |-> ShapeOf(bh.reads), writes |-> ShapeOf(bh.writes)]

\* The step applies the payload of the command before it once more.
Reapplied ==
    /\ UpdateStep
    /\ Len(trace) > 0
    /\ trace[Len(trace)].type = "VkUpdateDescriptorSets"
    /\ trace[Len(trace)].writes = Update.writes
    /\ trace[Len(trace)].copies = Update.copies

SameAfterReapplied ==
    /\ Shadow(dss') = Shadow(dss)
    /\ Shape(UpdateBehaviour) = Shape(ft[Len(ft)])

\* No copy of the payload reads from a set the payload updates.
ReadsNoUpdatedSet(cmd) ==
    \A i \in 1..Len(cmd.copies) :
        /\ \A j \in 1..Len(cmd.copies) : cmd.copies[i].srcSet # cmd.copies[j].dstSet
        /\ \A j \in 1..Len(cmd.writes) : cmd.copies[i].srcSet # cmd.writes[j].dstSet

\* C29 as stated: the second of two applications of one payload leaves the
\* shadow of every descriptor set as the first left it, and its behaviour
\* has the reads and the writes of the first.
C29_ReapplyAnyPayload == [][Reapplied => SameAfterReapplied]_vars

\* C29: the second of two applications of one payload, none of whose copies
\* reads from a set the payload updates, leaves the shadow of every
\* descriptor set as the first left it, and its behaviour has the reads and
\* the writes of the first.
C29_Reapply == [][(Reapplied /\ ReadsNoUpdatedSet(Update)) => SameAfterReapplied]_vars

\* One write of dynamic descriptors and one copy to the other set were each
\* applied twice in a row.
C29_Witness ==
    /\ ~crashed
    /\ Len(trace) = Len(DescSetup) + 3
    /\ trace[Len(trace)].type = "VkUpdateDescriptorSets"
    /\ trace[Len(trace)] = trace[Len(trace) - 1]
    /\ trace[Len(trace)].copies = <<CopyDescriptorSet(31, 0, 0, 32, 0, 1, 2)>>
    /\ trace[Len(trace) - 2].writes = <<WriteDescriptorSet(31, 0, 0, 2, TypeOfBinding(0))>>
    /\ dss[descriptorSets[32]].dynamicDescriptorCount = 2

-----------------------------------------------------------------------------
(* Properties of the use of bound descriptor sets *)

\* The behaviours of the draw or dispatch of the trace.
UseBehaviours == {i \in 1..Len(ft) : ft[i].role \in {"dispatch", "draw"}}

\* The dynamic offsets the bound set of set index 0 holds: the snapshot.
Snapshot == executionStates[7].primaryCmdBufState.descriptorSets[0].dynamicOffsets

\* The descriptor set of the trace, and its slots in (binding, array
\* element) order.
UsedSet == dss[descriptorSets[31]]
SlotOrder == <<<<0, 0>>, <<0, 1>>, <<1, 0>>>>
DynamicSlots ==
    SelectSeq(SlotOrder, LAMBDA p : /\ p \in DOMAIN UsedSet.descriptors
                                    /\ isDynamic(UsedSet.descriptors[p].ty))

\* The unit of the buffer the k-th dynamic descriptor touches when it
\* consumes the k-th offset of the snapshot.
UnitAt(k) == Snapshot[k] + UsedSet.descriptors[DynamicSlots[k]].bufOffset
Consuming == {k \in 1..Len(DynamicSlots) : k <= Len(Snapshot)}
StaticUnits ==
    {UsedSet.descriptors[p].bufOffset :
        p \in {q \in DOMAIN UsedSet.descriptors :
                  UsedSet.descriptors[q].ty = "UNIFORM_BUFFER"}}
ExpectedRead == {UnitAt(k) : k \in Consuming} \cup StaticUnits
ExpectedModified ==
    {UnitAt(k) : k \in {j \in Consuming :
                           UsedSet.descriptors[DynamicSlots[j]].ty
                               = "STORAGE_BUFFER_DYNAMIC"}}

\* The units of memory 3, which backs the buffer, among the variables.
UnitsOf(cs) ==
    UNION {spans[cs[i].n].start..(spans[cs[i].n].end - 1) :
              i \in {j \in DOMAIN cs : /\ cs[j].k = "recordedSpan"
                                       /\ spans[cs[j].n].memory = 3}}

\* C28: when a draw or dispatch uses the bound descriptor set, the k-th
\* dynamic descriptor in (binding, array element) order consumes the k-th
\* offset of the snapshot and touches the range of the buffer that starts
\* at the offset plus its own (read for uniform, modify for storage), and
\* the dynamic descriptors beyond the offsets touch no data.
C28_DynamicOffsets ==
    \A i \in UseBehaviours :
        /\ UnitsOf(ft[i].reads) = ExpectedRead
        /\ UnitsOf(ft[i].writes) = ExpectedModified

-----------------------------------------------------------------------------
(* Properties of two submits chained by a semaphore *)

\* The step is the second submit, and its first command executes in it.
SecondBegins ==
    /\ Len(trace') = Len(trace) + 1
    /\ trace'[Len(trace')].type = "VkQueueSubmit"
    /\ trace'[Len(trace')].fence = 5
    /\ trace'[Len(trace')].executed # <<>>

\* The terminal behaviours of the first submit.
FirstDone == UNION {BehavioursOf(i, "done") : i \in SubmitWithFence(0)}

\* The behaviours of the second submit after the step.
SecondBegan == {n \in 1..Len(ft') : ft'[n].role = "began" /\ ft'[n].idx = <<nextId>>}
SecondRan == {n \in 1..Len(ft') : Len(ft'[n].idx) = 4 /\ ft'[n].idx[1] = nextId}
SecondDone == {n \in 1..Len(ft') : ft'[n].role = "done" /\ ft'[n].idx = <<nextId>>}

\* C30: submit A signals semaphore 4; the later submit B waits for it, runs
\* a draw and signals fence 5.  The behaviour emitted when the first
\* subcommand of B executes comes before the behaviours of B's subcommands
\* and reads and writes the signal label of the semaphore, whose defining
\* behaviour at that moment is the terminal behaviour of A; the terminal
\* behaviour of B writes the signal label of the fence.
C30_Chained ==
    [][SecondBegins =>
          /\ Cardinality(FirstDone) = 1
          /\ \A a \in FirstDone : defB[Label(semaphoreSignals[4])] = ft[a].id
          /\ Cardinality(SecondBegan) = 1
          /\ \A b \in SecondBegan :
                 /\ SecondRan # {} /\ \A n \in SecondRan \cup SecondDone : b < n
                 /\ Label(semaphoreSignals[4]) \in Range(ft'[b].reads)
                 /\ Label(semaphoreSignals[4]) \in Range(ft'[b].writes)
                 /\ defB'[Label(semaphoreSignals[4])] = ft'[b].id
          /\ Drained(5)' =>
                 /\ Cardinality(SecondDone) = 1
                 /\ \A n \in SecondDone :
                        Label(fences[5].signal) \in Range(ft'[n].writes)]_vars

\* Both submits ran to their end, the second with its draw.
C30_Witness ==
    /\ Drained(0)
    /\ Drained(5)
    /\ \E i \in SubmitWithFence(5) :
           /\ BehavioursOf(i, "draw") # {}
           /\ BehavioursOf(i, "done") # {}
           /\ BehavioursOf(i, "began") # {}

-----------------------------------------------------------------------------
(* Properties of two builders *)

\* The builder that has built the footprint of the commands tr, and of
\* nothing else since the program started.
RECURSIVE BuiltFrom(_, _, _)
BuiltFrom(b, tr, i) ==
    IF i > Len(tr) THEN b ELSE BuiltFrom(BuildFootprint(b, tr[i]), tr, i + 1)
Alone(tr) == BuiltFrom([newFootprintBuilder EXCEPT !.nextLabelVal = 1], tr, 1)

\* The labels of a footprint, and the footprint with each label replaced by
\* its rank among them (the value of a label is never read by the builder).
LabelsOf(f) ==
    {v.n : v \in {w \in UNION {Range(f[i].reads) \cup Range(f[i].writes) : i \in 1..Len(f)} :
                     w.k = "label"}}
Ranked(cs, ls) ==
    [j \in 1..Len(cs) |->
        IF cs[j].k = "label"
        THEN Label(Cardinality({m \in ls : m <= cs[j].n})) ELSE cs[j]]
UpToLabels(f) ==
    [i \in 1..Len(f) |-> [f[i] EXCEPT !.reads = Ranked(@, LabelsOf(f)),
                                      !.writes = Ranked(@, LabelsOf(f))]]

\* Each builder has the footprint it has when it runs alone, the values of
\* the labels aside.
SameUpToLabels ==
    /\ UpToLabels(ft) = UpToLabels(Alone(trace).ft)
    /\ other # <<>> => UpToLabels(other.ft) = UpToLabels(Alone(other.trace).ft)

\* A call of BuildFootprint by the first, by the second builder.
FirstBuilds == trace' # trace
SecondBuilds == other # <<>> /\ other' # other

\* C31: two builders whose BuildFootprint calls interleave share no mutable
\* state: a call of one builder changes nothing that the other reads or
\* writes (its fields, and the counter from which newLabel takes the value of
\* its next label), and so each builder has the footprint it has when it
\* runs alone.
C31_Isolated ==
    [][/\ FirstBuilds => other' = other /\ (other # <<>> => nextLabelVal' = nextLabelVal)
       /\ SecondBuilds => UNCHANGED <<ft, trace, defB, semaphoreSignals, fences,
                                      commandBuffers, commands, nextLabelVal>>
       /\ ft' = Alone(trace').ft
       /\ other' # <<>> => other'.ft = Alone(other'.trace).ft]_vars

-----------------------------------------------------------------------------
(* Properties of the defining behaviours *)

\* The places in the footprint of the behaviours that wrote v.
WritersOf(v) == {m \in 1..Len(ft) : v \in Range(ft[m].writes)}

\* C32: every label in the read set of a behaviour of the footprint has a
\* defining behaviour, a behaviour that wrote it, which was added to the
\* footprint before the reader (the labels of the pipeline and of the dynamic
\* state a draw reads, and the labels of semaphores and fences, among them).
C32_ReadsDefined ==
    \A n \in 1..Len(ft) :
        \A v \in Range(ft[n].reads) :
            v.k = "label" => \E m \in WritersOf(v) : m < n

-----------------------------------------------------------------------------
(* Properties of a submit without commands *)

\* The submits of the trace into which no recorded command went.
EmptySubmitted == {i \in Recorded("VkQueueSubmit") : submitInfos[i].submitted = <<>>}

\* The behaviour of the submit itself modifies the signal label of every
\* wait semaphore and writes the signal label of the fence.
StampsWaitsAndFence(i) ==
    \A n \in BehavioursOf(i, "command") :
        /\ \A k \in 1..Len(submitInfos[i].waitSemaphores) :
               /\ semaphoreSignal(State, submitInfos[i].waitSemaphores[k]) \in Range(ft[n].reads)
               /\ semaphoreSignal(State, submitInfos[i].waitSemaphores[k]) \in Range(ft[n].writes)
        /\ trace[i].fence # 0 => Label(fences[trace[i].fence].signal) \in Range(ft[n].writes)

\* The behaviour of the submit itself writes the signal label of every
\* signal semaphore.
StampsSignals(i) ==
    \A n \in BehavioursOf(i, "command") :
        \A k \in 1..Len(submitInfos[i].signalSemaphores) :
            semaphoreSignal(State, submitInfos[i].signalSemaphores[k]) \in Range(ft[n].writes)

\* C33: the top-level behaviour of a VkQueueSubmit that holds no recorded
\* command stamps the begin and the end of the execution itself: it modifies
\* the signal label of every wait semaphore, writes the signal label
\* semaphoreSignals[sp] of every signal semaphore and writes the signal label
\* of the signal fence.
C33_EmptySubmit ==
    \A i \in EmptySubmitted :
        /\ BehavioursOf(i, "command") # {}
        /\ StampsWaitsAndFence(i)
        /\ StampsSignals(i)

\* What holds of the wait semaphores and of the fence.
EmptySubmitWaitsAndFence ==
    \A i \in EmptySubmitted : BehavioursOf(i, "command") # {} /\ StampsWaitsAndFence(i)

-----------------------------------------------------------------------------
(* Properties of the indexed draw *)

\* The bind of the trace, the draw whose behaviour is ft[n] (the command
\* buffer holds the commands of the trace after the setup, in their order),
\* and the bytes of the buffer that hold the indices the draw fetches:
\* indexCount indices from firstIndex on, counted from the offset of the bind.
IndexBind == trace[Len(IndexSetup) + 2]
IndexDraw(n) == trace[Len(IndexSetup) + 1 + ft[n].idx[4]]
IndexBytes(n) ==
    {IndexBind.offset + IndexDraw(n).firstIndex * indexSize(IndexBind.indexType) + i :
        i \in 0..(IndexDraw(n).indexCount * indexSize(IndexBind.indexType) - 1)}

\* The behaviours of the indexed draws.
IndexedDraws == {n \in 1..Len(ft) : ft[n].role = "drawIndexed"}

\* The bytes of the buffer readBoundIndexBuffer asks the bound index buffer
\* for, the index buffer being bound as it is now.
AskedBytes(n) ==
    UNION {spanStart(bd)..(spanEnd(bd) - 1) :
              bd \in Range(getSubBindingList(
                               [State EXCEPT !.nobh = TRUE],
                               executionStates[7].primaryCmdBufState.indexBufferResBindings,
                               U64(IndexDraw(n).firstIndex * indexSize(IndexBind.indexType)),
                               U64(IndexDraw(n).indexCount * indexSize(IndexBind.indexType))).sub)}

\* C34: an indexed draw, the index buffer bound at offset o with indices of
\* s bytes, reads of the data behind the index buffer exactly the bytes
\* [o + firstIndex * s, o + firstIndex * s + indexCount * s).
C34_IndexRange ==
    \A n \in IndexedDraws : UnitsOf(ft[n].reads) = IndexBytes(n)

\* What the behaviour of the draw reads: the bound buffer from the offset of
\* the bind to its end; and what readBoundIndexBuffer asks for: the bytes
\* [firstIndex * s, firstIndex * s + indexCount * s) of the buffer that lie
\* behind the offset of the bind.
IndexedDrawReadsAll ==
    \A n \in IndexedDraws :
        /\ UnitsOf(ft[n].reads) = IndexBind.offset..(IndexBufferSize - 1)
        /\ AskedBytes(n) =
               {b \in IndexBind.offset..(IndexBufferSize - 1) :
                   /\ b >= IndexDraw(n).firstIndex * indexSize(IndexBind.indexType)
                   /\ b < (IndexDraw(n).firstIndex + IndexDraw(n).indexCount)
                              * indexSize(IndexBind.indexType)}

-----------------------------------------------------------------------------
(* Properties of the command buffer execution state *)

\* The step runs the behave closure of one submitted command: Running is the
\* command, and ExecBefore and ExecAfter the execution state of the queue
\* before and after it.
Runs == Len(ran') = Len(ran) + 1
Running == ran'[Len(ran')]
ExecBefore == executionStates[7]
ExecAfter == executionStates'[7]

\* st is a command buffer execution state made in this step that nothing
\* but the running command has touched: new labels, and no index buffer and
\* no descriptor set but what the command itself binds.
FreshBut(st) ==
    /\ st.pipeline \in nextLabelVal..(nextLabelVal' - 1)
    /\ st.dynamicState \in nextLabelVal..(nextLabelVal' - 1)
    /\ st.pipeline # st.dynamicState
    /\ ~st.indexBufferIsNil => cbcs[Running.cmd].behave = "bindIndexBuffer"
    /\ st.descriptorSets # EmptyMap => cbcs[Running.cmd].behave = "bindDescriptorSets"

\* The running command is the first of its primary, of its secondary
\* command buffer.
FirstOfPrimary == Len(Running.id) = 4 /\ Running.id[4] = 0
FirstOfSecondary == Len(Running.id) = 6 /\ Running.id[6] = 0

\* C35: when a behave closure runs, the current command buffer execution
\* state is defined (the closure does not dereference nil); it is a fresh
\* state for the first executed command of a primary command buffer, whose
\* (submit, batch, command buffer) index is larger than that of the command
\* before, and for the first executed command of a secondary command buffer;
\* the commands of a secondary command buffer leave the primary state as it
\* is, so that the primary commands after them find it as it was before
\* CmdExecuteCommands.
C35_CurrentState ==
    [][Runs =>
          /\ ~crashed'
          /\ ExecAfter.currentCmdBufState
                 = (IF Len(Running.id) = 4 THEN "primary" ELSE "secondary")
          /\ FirstOfPrimary =>
                 /\ LessThan(SubSeq(ExecBefore.currentCommand, 1, 3),
                             SubSeq(Running.id, 1, 3))
                 /\ FreshBut(ExecAfter.primaryCmdBufState)
          /\ FirstOfSecondary => FreshBut(ExecAfter.secondaryCmdBufState)
          /\ Len(Running.id) = 6 \/ cbcs[Running.cmd].behave \in {"nothing", "modifyDynamicState"} =>
                 \/ ExecAfter.primaryCmdBufState = ExecBefore.primaryCmdBufState
                 \/ FirstOfPrimary]_vars

\* A primary command has run after the commands of a secondary command
\* buffer that bound something, in a primary state that holds a binding.
C35_Witness ==
    /\ Len(ran) > 3
    /\ \E n \in 2..Len(ran) :
           /\ Len(ran[n].id) = 4
           /\ Len(ran[n - 1].id) = 6
           /\ cbcs[ran[n - 1].cmd].behave # "modifyDynamicState"
    /\ \/ ~executionStates[7].primaryCmdBufState.indexBufferIsNil
       \/ executionStates[7].primaryCmdBufState.descriptorSets # EmptyMap
    /\ ~crashed

-----------------------------------------------------------------------------
(* Properties of the count of dynamic descriptors *)

\* The slots of a descriptor set object that hold a dynamic descriptor.
DynamicSlotsOf(ds) ==
    {p \in DOMAIN dss[ds].descriptors : isDynamic(dss[ds].descriptors[p].ty)}

\* C36: after any sequence of AllocateDescriptorSets and UpdateDescriptorSets
\* (writes and copies, a descriptor of another type written over a slot, a
\* set copied onto itself) the dynamicDescriptorCount of every descriptor set
\* is the number of its slots that hold a UNIFORM_BUFFER_DYNAMIC or
\* STORAGE_BUFFER_DYNAMIC descriptor; it never wraps around below zero.
C36_DynamicCount ==
    \A ds \in 1..Len(dss) :
        dss[ds].dynamicDescriptorCount = Cardinality(DynamicSlotsOf(ds))

\* A dynamic descriptor was carried into slot (1, 0) of set 31 and a sampler
\* written over it, and a copy inside the set has copied a dynamic descriptor
\* over a dynamic one.
C36_Witness ==
    /\ ~crashed
    /\ \E n \in 1..Len(trace) : \E m \in (n + 1)..Len(trace) : \E k \in (m + 1)..Len(trace) :
           /\ trace[n].type = "VkUpdateDescriptorSets"
           /\ trace[n].writes = <<WriteDescriptorSet(31, 0, 1, 2, TypeOfBinding(0))>>
           /\ trace[m].type = "VkUpdateDescriptorSets"
           /\ trace[m].writes = <<WriteDescriptorSet(31, 1, 0, 1, "SAMPLER")>>
           /\ trace[k].type = "VkUpdateDescriptorSets"
           /\ trace[k].copies = <<CopyDescriptorSet(31, 0, 1, 31, 0, 1, 1)>>
    /\ dss[descriptorSets[31]].dynamicDescriptorCount = 1
    /\ dss[descriptorSets[31]].descriptors[<<1, 0>>].ty = "SAMPLER"


(* Slots written and slots reserved *)

\* The slots of a set object whose element is not below the count
\* AllocateDescriptorSets reserved for the binding.
UnreservedSlots(ds) ==
    {slot \in DOMAIN dss[ds].descriptors : slot[2] >= ReservedCount(ds, slot[1])}

\* C37: every slot that holds a descriptor (slots are filled by the writes
\* and copies of UpdateDescriptorSets only, and the reserved counts of a set
\* object never change) is a slot AllocateDescriptorSets reserved: its
\* element is below the count of its binding.
C37_ReservedSlots == \A ds \in 1..Len(dss) : UnreservedSlots(ds) = {}

\* What holds instead: a slot that is not reserved is element 0 of the
\* binding after one whose count the update ran past.
CarriedPastReserved ==
    \A ds \in 1..Len(dss) : \A slot \in UnreservedSlots(ds) :
        /\ slot[2] = 0
        /\ slot[1] > 0
        /\ ReservedCount(ds, slot[1]) = 0


(* The pending list of a submit is a snapshot *)

\* The step runs a command that begins, resets, frees or records into a
\* command buffer.
TouchTypes ==
    {"VkBeginCommandBuffer", "VkResetCommandBuffer", "VkFreeCommandBuffers",
     "VkCmdSetLineWidth", "VkCmdExecuteCommands"}
TouchStep ==
    /\ Len(trace') = Len(trace) + 1
    /\ trace'[Len(trace')].type \in TouchTypes
    /\ ~crashed'
\* The submit has the same pending list after the step: the same indices
\* and the same command objects in the same order, each object with the
\* same fields.
SamePending(id) ==
    /\ id \in DOMAIN submitInfos'
    /\ submitInfos'[id].pendingCommands = submitInfos[id].pendingCommands
    /\ \A n \in 1..Len(submitInfos[id].pendingCommands) :
           cbcs'[submitInfos[id].pendingCommands[n].cmd]
               = cbcs[submitInfos[id].pendingCommands[n].cmd]
\* The step rolls out the head of a pending list and nothing else of it.
RollStep ==
    /\ Len(trace') = Len(trace) + 1
    /\ trace'[Len(trace')].type = "VkSetEvent"
    /\ ~crashed'
HeadTaken(id) ==
    /\ id \in DOMAIN submitInfos'
    /\ \/ submitInfos'[id].pendingCommands = submitInfos[id].pendingCommands
       \/ /\ submitInfos[id].pendingCommands # <<>>
          /\ submitInfos'[id].pendingCommands = Tail(submitInfos[id].pendingCommands)
          /\ ran' = Append(ran, submitInfos[id].pendingCommands[1])

\* C38: a VkBeginCommandBuffer, VkResetCommandBuffer, VkFreeCommandBuffers
\* or vkCmd* recording on a submitted command buffer, between the submit and
\* the rollout of its commands, leaves the pending list of every submit as
\* it was (number, order and identity of the commands), and a later rollout
\* takes the commands from the head of that list.
C38_Snapshot ==
    [][/\ TouchStep => \A id \in DOMAIN submitInfos : SamePending(id)
       /\ RollStep => \A id \in DOMAIN submitInfos : HeadTaken(id)]_vars

\* The submitted command buffer was reset, its secondary command buffer was
\* freed and a command was recorded into it, and after that the three
\* commands of the submit were rolled out as they were submitted.
C38_Witness ==
    /\ ~crashed
    /\ Len(trace) = Len(SnapSetup) + 4
    /\ trace[Len(SnapSetup) + 1].type \in {"VkResetCommandBuffer", "VkBeginCommandBuffer"}
    /\ trace[Len(SnapSetup) + 1].commandBuffer = 1
    /\ trace[Len(SnapSetup) + 2].type = "VkSetEvent"
    /\ trace[Len(SnapSetup) + 3].type = "VkFreeCommandBuffers"
    /\ trace[Len(SnapSetup) + 3].commandBuffers = <<2>>
    /\ trace[Len(SnapSetup) + 4].type = "VkSetEvent"
    /\ Len(ran) = 2
    /\ ran = SubSeq(submitInfos[Len(SnapSetup)].submitted, 1, 2)
    /\ Len(submitInfos[Len(SnapSetup)].pendingCommands) = 1


(* The head of the pending list at the rollout *)

\* The command of the step, and the builder as the i-th round of the loop
\* of rollOutExecuted finds it: after the command's own behaviour and the
\* rounds before.
RolledCmd == trace'[Len(trace')]
RollsOut ==
    /\ Len(trace') = Len(trace) + 1
    /\ RolledCmd.type \in {"VkQueueSubmit", "VkSetEvent"}
    /\ ~BuildTop(State, RolledCmd).crashed
BeforeRound(i) ==
    rollOutExecuted(BuildTop(State, RolledCmd), SubSeq(RolledCmd.executed, 1, i - 1))
\* The rounds the loop gets to: it returns at the first divergence.
Rounds == {i \in 1..Len(RolledCmd.executed) : ~BeforeRound(i).crashed /\ ~BeforeRound(i).stop}

\* C39: in every round of the loop of rollOutExecuted the submit of the
\* executed subcommand has a submit info and the pending list of that
\* submit is not empty.
C39_HeadExists ==
    [][RollsOut =>
          \A i \in Rounds :
              /\ RolledCmd.executed[i][1] \in DOMAIN BeforeRound(i).submitInfos
              /\ BeforeRound(i).submitInfos[RolledCmd.executed[i][1]].pendingCommands # <<>>]_vars

\* What holds instead: the submit info exists in every round, and the
\* handler panics in the rounds that find the pending list empty.
SubmitInfoExists ==
    [][RollsOut =>
          \A i \in Rounds :
              /\ RolledCmd.executed[i][1] \in DOMAIN BeforeRound(i).submitInfos
              /\ BeforeRound(i).submitInfos[RolledCmd.executed[i][1]].pendingCommands = <<>>
                     => crashed']_vars


(* The mapped-coherent set after frees *)

\* The coherent memories that are mapped.
MappedCoherentNow ==
    {vkMem \in DOMAIN DeviceMemories : DeviceMemories[vkMem].coherent /\ MappedNow(vkMem)}
\* The memories whose spans the last command of the trace wrote.
StampedMemories ==
    {sp.memory : sp \in SpansWritten(TopBehaviour(ft, Len(trace)), spans)}

\* C40: after any sequence of VkMapMemory, VkUnmapMemory, VkFreeMemory and
\* VkAllocateMemory the mapped-coherent set holds exactly the memories that
\* are mapped and coherent, and the observations of a command stamp no write
\* to a span of a memory that is not mapped.
C40_MappedCoherentSet ==
    /\ DOMAIN mappedCoherentMemories = MappedCoherentNow
    /\ (~crashed /\ Len(trace) > 0 /\ trace[Len(trace)].type = "VkQueueSubmit")
           => StampedMemories \subseteq MappedCoherentNow

\* What holds instead: a memory is in the set when it was coherent at its
\* last VkMapMemory and no VkUnmapMemory of it came after, freed or not.
MappedAndNotUnmapped ==
    DOMAIN mappedCoherentMemories =
        {vkMem \in {3, 6} :
            \E p \in 1..Len(trace) :
                /\ trace[p].type = "VkMapMemory" /\ trace[p].memory = vkMem
                /\ \A q \in (p + 1)..Len(trace) :
                      ~(trace[q].type = "VkUnmapMemory" /\ trace[q].memory = vkMem)
                /\ \E a \in 1..(p - 1) :
                      /\ trace[a].type = "VkAllocateMemory" /\ trace[a].memory = vkMem
                      /\ trace[a].coherent
                      /\ \A b \in (a + 1)..(p - 1) :
                            ~(trace[b].type = "VkAllocateMemory" /\ trace[b].memory = vkMem)}

====
